---- MODULE Spec2Model ----
(***************************************************************************)
(* Theme cache and parallel theme loader of omarchist (src-tauri).         *)
(*                                                                         *)
(* The module holds several specifications over one set of variables:      *)
(*   SpecTitle   dir_name_to_title as a pure function of a directory name  *)
(*   SpecSanitize  sanitize_name as a pure function of a theme name        *)
(*   SpecOnce    the lazily constructed process-wide theme loader          *)
(*   SpecConfig  the cache configuration manager                           *)
(*   SpecColor   the ColorCache of the loader (get / set / clear / size)   *)
(*   SpecLoader  one OptimizedThemeLoader scanning a themes root           *)
(*   Spec        the ThemeCache and the tauri commands that drive it       *)
(*   SpecCustom  the custom theme commands beside the cache commands       *)
(*   SpecConfigRace  update_cache_config and reset_cache_config step by    *)
(*               step, run by concurrent callers                           *)
(*   SpecLoaderFair  the scan with its units scheduled fairly              *)
(*   SpecRace    the cache commands step by step, run by concurrent        *)
(*               callers                                                   *)
(* A specification leaves the variables of the other parts at their        *)
(* initial values.                                                         *)
(***************************************************************************)
EXTENDS Integers, Sequences, FiniteSets, TLC

VARIABLES
    tIn,        \* SpecTitle: the directory name handed to dir_name_to_title
                \* SpecSanitize: the theme name handed to sanitize_name
    tOut,       \* SpecTitle: the title returned
                \* SpecSanitize: the directory name returned
    tAgain,     \* the function applied to what it returned (second application)
    tPc,        \* SpecTitle: "start" | "titled" | "retitled"
                \* SpecSanitize: "name" | "sanitized" | "resanitized"
    colorCache, \* ColorCache.cache: HashMap<String, Option<ThemeColors>>
    ccRet,      \* what the last ColorCache call returned
    ccLast,     \* history: the value last set for each key since the last clear
    fsRoot,     \* the themes root: "nohome" | "missing" | "unreadable" | "ok"
    fsDirs,     \* the entries of the themes root: name -> what the entry holds
    fsEdits,    \* how many times theme files were rewritten
    scPc,       \* load_themes_parallel: "idle" | "joining" | "done"
    scPaths,    \* theme_paths, in the order read_dir gave them
    scUnits,    \* one spawned task per path: where it is and what it has so far
    scJoin,     \* the handle the collecting loop awaits next
    scThemes,   \* themes: the Ok(Ok(theme)) results pushed so far
    scErrors,   \* errors: the Ok(Err(e)) and Err(join error) results pushed so far
    scResult,   \* what load_themes_parallel returned
    scCount,    \* how many scans were started
    ccReturned, \* history: what extract_theme_colors_cached last returned for
                \* each directory since the last clear
    mdResult,   \* what load_theme_metadata_only returned
    mdUnits,    \* the paths load_theme_metadata_only spawned a unit for
    tcAvail,    \* whether get_theme_cache() gives the cache (Ok) or fails
    snapshot,   \* ThemeCache: [themes, last_refreshed_at]
    tcConfig,   \* ThemeCache: the CacheConfig in force
    tcOversize, \* ThemeCache: what cache_themes does with an oversized list
    now,        \* the clock, in the unit of cache_duration_minutes
    ret,        \* the last command: its name, what it returned and how
    pre,        \* the snapshot as it was when the last command started
    tbr,        \* the last command's call of trigger_background_refresh
    rwWriter,   \* ThemeCache lock: the caller that holds it for writing, or 0
    rwReaders,  \* ThemeCache lock: the callers that hold it for reading
    rwProc,     \* each caller of a ThemeCache operation: where it is in it
    rwOps,      \* how many ThemeCache operations were started
    rwCommitted, \* history: the theme lists left by the completed mutations
    rwLatest,   \* history: the theme list left by the last completed mutation
    rwGot,      \* what the last get_themes returned
    cfgFile,    \* cache_config.toml: None, or Some(its text)
    cfgRet,     \* the last call of the configuration manager and its result
    cfgPre,     \* the file and the live configuration when that call started
    THEME_LOADER, \* the OnceLock: None, or Some(the loader it holds)
    olInit,     \* the caller running the initializer of get_or_init, or 0
    olMade,     \* how many times OptimizedThemeLoader::new was called
    olProc,     \* each caller of get_theme_loader: where it is, the loader it got
    olCaches,   \* the ColorCache of each loader made: the keys set in it
    olCalls,    \* how many calls of get_theme_loader were started
    rcProc,     \* each caller of a command that runs in steps: where it is in
                \* the command and what it holds in its locals
    rcCalls,    \* how many such commands were started
    rcRead      \* what the scan that read the theme files last has read

titleVars == <<tIn, tOut, tAgain, tPc>>

colorVars == <<colorCache, ccRet, ccLast>>

fsVars == <<fsRoot, fsDirs, fsEdits>>

scanVars == <<scPc, scPaths, scUnits, scJoin, scThemes, scErrors, scResult, scCount,
              ccReturned, mdResult, mdUnits>>

cacheVars == <<tcAvail, snapshot, tcConfig, tcOversize, now, ret, pre, tbr>>

rwVars == <<rwWriter, rwReaders, rwProc, rwOps, rwCommitted, rwLatest, rwGot>>

cfgVars == <<cfgFile, cfgRet, cfgPre>>

onceVars == <<THEME_LOADER, olInit, olMade, olProc, olCaches, olCalls>>

raceVars == <<rcProc, rcCalls, rcRead>>

vars == <<titleVars, colorVars, fsVars, scanVars, cacheVars, rwVars, cfgVars, onceVars,
          raceVars>>

(***************************************************************************)
(* Option<T>: None is the empty sequence, Some(x) the one-element one.     *)
(***************************************************************************)
None == <<>>

Some(x) == <<x>>

IsSome(o) == Len(o) = 1

Unwrap(o) == o[1]

(***************************************************************************)
(* Strings are sequences of one-character strings, so that the code's      *)
(* loops over chars() can be followed.                                     *)
(***************************************************************************)
Alphabet == {"a", "b", "B", "1", "-", "_", " ", "s"}

MaxNameLen == 4

RECURSIVE SeqsUpTo(_, _)
SeqsUpTo(S, n) ==
    IF n = 0 THEN {<<>>}
    ELSE LET shorter == SeqsUpTo(S, n - 1)
         IN  shorter \cup {Append(s, c) : s \in {x \in shorter : Len(x) = n - 1}, c \in S}

\* char::to_uppercase: an iterator of one or more chars ("s" stands for a
\* character such as U+00DF whose upper case is two characters long).
to_uppercase(c) ==
    CASE c = "a" -> <<"A">>
      [] c = "b" -> <<"B">>
      [] c = "s" -> <<"S", "S">>
      [] OTHER   -> <<c>>

IsSeparator(c) == c \in {"-", "_"}

\* The loop body of dir_name_to_title: one char, the flag and the title so far.
RECURSIVE TitleLoop(_, _, _, _)
TitleLoop(chars, i, capitalize_next, title) ==
    IF i > Len(chars) THEN title
    ELSE LET ch == chars[i]
         IN  IF IsSeparator(ch)
             THEN TitleLoop(chars, i + 1, TRUE, Append(title, " "))
             ELSE IF capitalize_next
                  THEN TitleLoop(chars, i + 1, FALSE, title \o to_uppercase(ch))
                  ELSE TitleLoop(chars, i + 1, FALSE, Append(title, ch))

\* Mutant: the flag is not raised again after a separator.
RECURSIVE TitleLoopFirstOnly(_, _, _, _)
TitleLoopFirstOnly(chars, i, capitalize_next, title) ==
    IF i > Len(chars) THEN title
    ELSE LET ch == chars[i]
         IN  IF IsSeparator(ch)
             THEN TitleLoopFirstOnly(chars, i + 1, capitalize_next, Append(title, " "))
             ELSE IF capitalize_next
                  THEN TitleLoopFirstOnly(chars, i + 1, FALSE, title \o to_uppercase(ch))
                  ELSE TitleLoopFirstOnly(chars, i + 1, FALSE, Append(title, ch))

dir_name_to_title_first_only(dir_name) == TitleLoopFirstOnly(dir_name, 1, TRUE, <<>>)

dir_name_to_title(dir_name) == TitleLoop(dir_name, 1, TRUE, <<>>)

(***************************************************************************)
(* ColorCache (optimized_theme_loader.rs): a map from a theme directory    *)
(* name to Option<ThemeColors>. ThemeColors are opaque palettes.           *)
(***************************************************************************)
Palettes == {"p1", "p2"}

OptColors == {None} \cup {Some(p) : p \in Palettes}

ThemeDirNames == {<<"a">>, <<"b", "-", "c">>, <<"s", "_", "1">>}

EmptyMap == [k \in {} |-> None]

ColorCacheNew == EmptyMap

\* Mutant: the map lookup flattened, Some(None) read as None.
ColorCacheGetFlattened(cache, theme_dir) ==
    IF theme_dir \in DOMAIN cache /\ cache[theme_dir] # None
    THEN Some(cache[theme_dir]) ELSE None

\* Option<Option<ThemeColors>>: None = no entry, Some(v) = the entry v
ColorCacheGet(cache, theme_dir) ==
    IF theme_dir \in DOMAIN cache THEN Some(cache[theme_dir]) ELSE None

ColorCacheSet(cache, theme_dir, colors) ==
    [k \in DOMAIN cache \cup {theme_dir} |-> IF k = theme_dir THEN colors ELSE cache[k]]

ColorCacheClear(cache) == EmptyMap

ColorCacheSize(cache) == Cardinality(DOMAIN cache)

(***************************************************************************)
(* The filesystem under ~/.config/omarchy/themes, as the loader reads it.  *)
(* An entry of the root is described by                                    *)
(*   entry    "dir" | "file"      path.is_dir()                            *)
(*   unit     "ok" | "badname" | "panic": the name is valid UTF-8, is not, *)
(*            or the spawned task panics                                   *)
(*   custom   "absent" | "file" | "dir": what custom_theme.json is         *)
(*   symlink  whether the entry itself is a symbolic link                  *)
(*   json     "unreadable" | "malformed" | "empty" | a palette: what       *)
(*            reading, parsing and extract_from_custom_theme give          *)
(*   toml     "absent" | "empty" | a palette: alacritty.toml and what      *)
(*            extract_from_alacritty_config gives                          *)
(*   image    "none" | "unreadable" | "taskfail" | "ok": the first file    *)
(*            with an image extension                                      *)
(***************************************************************************)
Entry(en, un, cu, sy, js, to, im) ==
    [entry |-> en, unit |-> un, custom |-> cu, symlink |-> sy, json |-> js,
     toml |-> to, image |-> im]

\* the entries the scans are run on: every classification, colour sources
\* that give a palette, fall through to the second source or give none, every
\* image outcome, both ways a unit fails, and an entry that is no directory
EntryKinds ==
    {Entry("dir", "ok", "absent", FALSE, "p1", "p2", "none"),
     Entry("dir", "ok", "absent", TRUE, "unreadable", "empty", "taskfail"),
     Entry("dir", "ok", "file", FALSE, "p1", "p2", "none"),
     Entry("dir", "ok", "file", FALSE, "empty", "absent", "ok"),
     Entry("dir", "ok", "file", TRUE, "malformed", "p2", "unreadable"),
     Entry("dir", "ok", "dir", FALSE, "p1", "p2", "none"),
     Entry("dir", "ok", "dir", TRUE, "p1", "p2", "none"),
     Entry("dir", "badname", "file", FALSE, "p1", "absent", "ok"),
     Entry("dir", "panic", "file", FALSE, "p1", "absent", "ok"),
     Entry("file", "ok", "absent", FALSE, "empty", "absent", "none")}

\* the names the entries of the scanned root may have
LoaderDirNames == {<<"a">>, <<"b", "-", "c">>}

MaxEdits == 1

MaxScans == 2

Injective(f) == \A i, j \in DOMAIN f : f[i] = f[j] => i = j

\* the orders in which read_dir may give the members of S
Orders(S) == {f \in [1..Cardinality(S) -> S] : Injective(f)}

SysTheme(dir, title, image, is_system, is_custom, colors) ==
    [dir |-> dir, title |-> title,
     description |-> <<"Auto-generated theme from ">> \o dir,
     image |-> image, is_system |-> is_system, is_custom |-> is_custom,
     colors |-> colors]

ThemeMetadata(dir, title, is_system, is_custom, has_colors, has_image) ==
    [dir |-> dir, title |-> title, is_system |-> is_system, is_custom |-> is_custom,
     has_colors |-> has_colors, has_image |-> has_image]

Ok(v) == [ok |-> TRUE, val |-> v, err |-> ""]

Err(e) == [ok |-> FALSE, val |-> <<>>, err |-> e]

\* Mutant: exists() in place of is_file().
IsCustomExists(e) == e.custom # "absent"

\* theme_dir.join("custom_theme.json").is_file()
IsCustom(e) == e.custom = "file"

\* Mutant: the symlink test without the custom test before it.
IsSystemSymlinkOnly(e, is_custom) == e.symlink

\* is_system: false for a custom theme, else whether the directory is a symlink
IsSystem(e, is_custom) == IF is_custom THEN FALSE ELSE e.symlink

\* Mutant: alacritty.toml is tried before custom_theme.json.
extract_theme_colors_direct_alacritty_first(e, is_custom) ==
    IF e.toml \in Palettes THEN Some(e.toml)
    ELSE IF is_custom /\ e.custom # "absent" /\ e.json \in Palettes THEN Some(e.json)
    ELSE None

\* extract_theme_colors_direct
extract_theme_colors_direct(e, is_custom) ==
    IF is_custom /\ e.custom # "absent" /\ e.json \in Palettes
    THEN Some(e.json)
    ELSE IF e.toml \in Palettes THEN Some(e.toml) ELSE None

\* Mutant: the error of the image task is handed on in place of the image.
load_theme_image_async_unmapped(e) ==
    IF e.image = "ok" THEN "data:image"
    ELSE IF e.image = "none" THEN ""
    ELSE IF e.image = "unreadable" THEN "Failed to read image file"
    ELSE "task failed"

\* find_and_convert_image inside spawn_blocking, as load_theme_image_async
\* maps its three outcomes to a string
load_theme_image_async(e) == IF e.image = "ok" THEN "data:image" ELSE ""

has_image_files(e) == e.image # "none"

(***************************************************************************)
(* The sequential generator of get_sys_themes.rs, which get_sys_theme_by_  *)
(* name uses: generate_theme_from_directory and extract_theme_colors.      *)
(***************************************************************************)
\* extract_theme_colors: custom_theme.json of a custom theme if it exists and
\* gives colors, else alacritty.toml if it exists and gives colors
extract_theme_colors(e, is_custom) ==
    IF is_custom /\ e.custom # "absent" /\ e.json \in Palettes THEN Some(e.json)
    ELSE IF e.toml # "absent" /\ e.toml \in Palettes THEN Some(e.toml)
    ELSE None

\* the loop that builds the title inside generate_theme_from_directory
RECURSIVE SequentialTitle(_, _, _, _)
SequentialTitle(chars, i, capitalize_next, title) ==
    IF i > Len(chars) THEN title
    ELSE IF chars[i] \in {"-", "_"}
         THEN SequentialTitle(chars, i + 1, TRUE, Append(title, " "))
         ELSE IF capitalize_next
              THEN SequentialTitle(chars, i + 1, FALSE, title \o to_uppercase(chars[i]))
              ELSE SequentialTitle(chars, i + 1, FALSE, Append(title, chars[i]))

\* Mutant: a theme is custom when custom_theme.json exists, file or not.
generate_theme_from_directory_custom_exists(d, e) ==
    IF e.unit = "badname" THEN Err("Invalid directory name")
    ELSE LET is_custom == e.custom # "absent"
             is_system == IF is_custom THEN FALSE ELSE e.symlink
         IN  Ok([dir |-> d,
                 title |-> SequentialTitle(d, 1, TRUE, <<>>),
                 description |-> <<"Auto-generated theme from ">> \o d,
                 image |-> IF e.image = "ok" THEN "data:image" ELSE "",
                 is_system |-> is_system,
                 is_custom |-> is_custom,
                 colors |-> extract_theme_colors(e, is_custom)])

\* generate_theme_from_directory: the image is the first image file that
\* converts, "" if none does
generate_theme_from_directory(d, e) ==
    IF e.unit = "badname" THEN Err("Invalid directory name")
    ELSE LET is_custom == e.custom = "file"
             is_system == IF is_custom THEN FALSE ELSE e.symlink
         IN  Ok([dir |-> d,
                 title |-> SequentialTitle(d, 1, TRUE, <<>>),
                 description |-> <<"Auto-generated theme from ">> \o d,
                 image |-> IF e.image = "ok" THEN "data:image" ELSE "",
                 is_system |-> is_system,
                 is_custom |-> is_custom,
                 colors |-> extract_theme_colors(e, is_custom)])

\* collect_theme_paths keeps the entries that are directories
ThemeDirsOf(dirs) == {d \in DOMAIN dirs : dirs[d].entry = "dir"}

\* generate_theme_metadata: no await inside, one unit is one step
generate_theme_metadata(d, e) ==
    IF e.unit = "badname" THEN Err("Invalid directory name")
    ELSE IF e.unit = "panic" THEN Err("join")
    ELSE LET is_custom == IsCustom(e)
         IN  Ok(ThemeMetadata(d, dir_name_to_title(d), IsSystem(e, is_custom), is_custom,
                              e.custom # "absent" \/ e.toml # "absent",
                              has_image_files(e)))

\* the root checks that open load_themes_parallel and load_theme_metadata_only
RootError(root) ==
    CASE root = "nohome"     -> "Failed to get home directory"
      [] root = "missing"    -> "Themes directory does not exist"
      [] root = "unreadable" -> "Failed to read themes directory"
      [] OTHER               -> ""

\* load_themes_parallel after the collecting loop: the errors are logged, the
\* themes returned
BatchResultFailFast(themes, errors) ==
    IF errors # <<>> THEN Err("Task join error") ELSE Ok(themes)

BatchResult(themes, errors) == Ok(themes)

\* extract_theme_colors_cached on a miss: "Cache the result (even if None)"
StoreAfterMissSomeOnly(cache, dir_name, colors) ==
    IF colors = None THEN cache ELSE ColorCacheSet(cache, dir_name, colors)

StoreAfterMiss(cache, dir_name, colors) == ColorCacheSet(cache, dir_name, colors)

\* extract_theme_colors_cached on a hit: the stored value, no extraction
ColorsOnHitRecomputed(cached, e, is_custom) == extract_theme_colors_direct(e, is_custom)

ColorsOnHit(cached, e, is_custom) == Unwrap(cached)

\* the Ok results of a sequence of unit results, in order
RECURSIVE OkValues(_)
OkValues(rs) ==
    IF rs = <<>> THEN <<>>
    ELSE IF Head(rs).ok THEN <<Head(rs).val>> \o OkValues(Tail(rs))
    ELSE OkValues(Tail(rs))

\* Mutant: a root that is not there is read as a root without themes.
load_theme_metadata_only_result_lenient(root, dirs, order) ==
    IF root # "ok" THEN Ok(<<>>)
    ELSE Ok(OkValues([i \in 1..Len(order) |-> generate_theme_metadata(order[i], dirs[order[i]])]))

load_theme_metadata_only_result(root, dirs, order) ==
    IF root # "ok" THEN Err(RootError(root))
    ELSE Ok(OkValues([i \in 1..Len(order) |-> generate_theme_metadata(order[i], dirs[order[i]])]))

(***************************************************************************)
(* SpecColor: any sequence of get / set / clear_cache / get_cache_stats.   *)
(***************************************************************************)
InitColor ==
    /\ colorCache = ColorCacheNew
    /\ ccRet = [op |-> "new", key |-> <<>>, val |-> None]
    /\ ccLast = EmptyMap

CCGet(k) ==
    /\ ccRet' = [op |-> "get", key |-> k, val |-> ColorCacheGet(colorCache, k)]
    /\ UNCHANGED <<colorCache, ccLast>>
    /\ UNCHANGED <<raceVars, onceVars, cfgVars, rwVars, cacheVars, titleVars, fsVars, scanVars>>

CCSet(k, v) ==
    /\ colorCache' = ColorCacheSet(colorCache, k, v)
    /\ ccRet' = [op |-> "set", key |-> k, val |-> v]
    /\ ccLast' = [x \in DOMAIN ccLast \cup {k} |-> IF x = k THEN v ELSE ccLast[x]]
    /\ UNCHANGED <<raceVars, onceVars, cfgVars, rwVars, cacheVars, titleVars, fsVars, scanVars>>

\* OptimizedThemeLoader::clear_cache
clear_cache ==
    /\ colorCache' = ColorCacheClear(colorCache)
    /\ ccRet' = [op |-> "clear", key |-> <<>>, val |-> None]
    /\ ccLast' = EmptyMap
    /\ ccReturned' = EmptyMap
    /\ UNCHANGED <<raceVars, onceVars, cfgVars, rwVars, cacheVars, titleVars, fsVars>>
    /\ UNCHANGED <<scPc, scPaths, scUnits, scJoin, scThemes, scErrors, scResult, scCount,
                   mdResult, mdUnits>>

\* OptimizedThemeLoader::get_cache_stats
get_cache_stats ==
    /\ ccRet' = [op |-> "size", key |-> <<>>, val |-> ColorCacheSize(colorCache)]
    /\ UNCHANGED <<colorCache, ccLast>>
    /\ UNCHANGED <<raceVars, onceVars, cfgVars, rwVars, cacheVars, titleVars, fsVars, scanVars>>

NextColor ==
    \/ \E k \in ThemeDirNames : CCGet(k)
    \/ \E k \in ThemeDirNames, v \in OptColors : CCSet(k, v)
    \/ clear_cache
    \/ get_cache_stats

\* C7: get(k) answers "no cached answer" (None) iff k was not set since
\* creation or the last clear; a key set to v answers Some(v), so a key set to
\* None answers Some(None), which is not None; size is the number of distinct
\* keys set since the last clear; after clear the size is 0 and no key is cached.
C7_ColorCacheContract ==
    /\ \A k \in ThemeDirNames :
          /\ (ColorCacheGet(colorCache, k) = None) <=> (k \notin DOMAIN ccLast)
          /\ k \in DOMAIN ccLast => ColorCacheGet(colorCache, k) = Some(ccLast[k])
    /\ ColorCacheSize(colorCache) = Cardinality(DOMAIN ccLast)
    /\ ccRet.op = "get" =>
          ccRet.val = (IF ccRet.key \in DOMAIN ccLast THEN Some(ccLast[ccRet.key]) ELSE None)
    /\ (ccRet.op = "set" /\ ccRet.val = None) =>
          /\ ColorCacheGet(colorCache, ccRet.key) = Some(None)
          /\ ColorCacheGet(colorCache, ccRet.key) # None
    /\ ccRet.op = "size" => ccRet.val = Cardinality(DOMAIN ccLast)
    /\ ccRet.op = "clear" =>
          /\ ColorCacheSize(colorCache) = 0
          /\ \A k \in ThemeDirNames : ColorCacheGet(colorCache, k) = None

\* a key holding the cached answer "no palette", read back, beside a key with
\* a palette and a key never set
C7_Witness ==
    /\ ccRet.op = "get"
    /\ ccRet.val = Some(None)
    /\ \E k \in ThemeDirNames : ColorCacheGet(colorCache, k) = None
    /\ ColorCacheSize(colorCache) = 2

(***************************************************************************)
(* SpecTitle                                                               *)
(***************************************************************************)
InitTitleIdle ==
    /\ tIn = <<>>
    /\ tOut = <<>>
    /\ tAgain = <<>>
    /\ tPc = "idle"

InitTitle ==
    /\ tIn \in SeqsUpTo(Alphabet, MaxNameLen)
    /\ tOut = <<>>
    /\ tAgain = <<>>
    /\ tPc = "start"

ApplyTitle ==
    /\ tPc = "start"
    /\ tOut' = dir_name_to_title(tIn)
    /\ tPc' = "titled"
    /\ UNCHANGED <<tIn, tAgain>>
    /\ UNCHANGED <<raceVars, onceVars, cfgVars, rwVars, cacheVars, colorVars, fsVars, scanVars>>

ApplyTitleAgain ==
    /\ tPc = "titled"
    /\ tAgain' = dir_name_to_title(tOut)
    /\ tPc' = "retitled"
    /\ UNCHANGED <<tIn, tOut>>
    /\ UNCHANGED <<raceVars, onceVars, cfgVars, rwVars, cacheVars, colorVars, fsVars, scanVars>>

NextTitle ==
    \/ ApplyTitle
    \/ ApplyTitleAgain

(***************************************************************************)
(* What a title is, position by position, without the loop's flag.         *)
(***************************************************************************)
RECURSIVE Flatten(_)
Flatten(ss) == IF ss = <<>> THEN <<>> ELSE Head(ss) \o Flatten(Tail(ss))

AtWordStart(d, i) == i = 1 \/ IsSeparator(d[i - 1])

\* every separator becomes one space
TitlePiece(d, i) ==
    IF IsSeparator(d[i]) THEN <<" ">>
    ELSE IF AtWordStart(d, i) THEN to_uppercase(d[i])
    ELSE <<d[i]>>

\* every run of separators becomes one space
TitlePieceRuns(d, i) ==
    IF IsSeparator(d[i]) THEN (IF i > 1 /\ IsSeparator(d[i - 1]) THEN <<>> ELSE <<" ">>)
    ELSE IF AtWordStart(d, i) THEN to_uppercase(d[i])
    ELSE <<d[i]>>

HasSeparator(d) == \E i \in 1..Len(d) : IsSeparator(d[i])

HasSeparatorRun(d) == \E i \in 2..Len(d) : IsSeparator(d[i]) /\ IsSeparator(d[i - 1])

\* C10 (as amended): title(d) replaces every '-' and every '_' with one space
\* (a run of n of them gives n spaces), upper-cases the character at the start
\* and the character after each '-'/'_', leaves every other character as it
\* is, and title(title(d)) = title(d) when title(d) holds no '-'/'_'.
C10_TitlePerSeparator ==
    /\ tPc \in {"titled", "retitled"} =>
            tOut = Flatten([i \in 1..Len(tIn) |-> TitlePiece(tIn, i)])
    /\ (tPc = "retitled" /\ ~HasSeparator(tOut)) => tAgain = tOut

\* C10 as stated: every run of '-'/'_' becomes a single space.
C10_TitleRunsCollapsed ==
    tPc \in {"titled", "retitled"} =>
        tOut = Flatten([i \in 1..Len(tIn) |-> TitlePieceRuns(tIn, i)])

C10_Witness ==
    /\ tPc = "retitled"
    /\ HasSeparatorRun(tIn)
    /\ \E i \in 2..Len(tIn) : IsSeparator(tIn[i - 1]) /\ to_uppercase(tIn[i]) # <<tIn[i]>>
    /\ tAgain = tOut

(***************************************************************************)
(* SpecLoader: the loader scanning the themes root, its per-theme tasks    *)
(* interleaved, while theme files are rewritten and the color cache is     *)
(* cleared.                                                                *)
(***************************************************************************)
InitFsIdle ==
    /\ fsRoot = "ok"
    /\ fsDirs = EmptyMap
    /\ fsEdits = 0

InitScan ==
    /\ scPc = "idle"
    /\ scPaths = <<>>
    /\ scUnits = <<>>
    /\ scJoin = 1
    /\ scThemes = <<>>
    /\ scErrors = <<>>
    /\ scResult = Err("")
    /\ scCount = 0
    /\ ccReturned = EmptyMap
    /\ mdResult = Err("")
    /\ mdUnits = <<>>

InitFs ==
    /\ fsRoot \in {"nohome", "missing", "unreadable", "ok"}
    /\ \E S \in SUBSET LoaderDirNames :
          /\ fsRoot # "ok" => S = {}
          /\ fsDirs \in [S -> EntryKinds]
    /\ fsEdits = 0

\* a theme's files are rewritten (update_theme writes custom_theme.json and
\* the generated alacritty.toml)
FsEdit(d) ==
    /\ fsEdits < MaxEdits
    /\ d \in DOMAIN fsDirs
    /\ fsDirs[d].entry = "dir"
    /\ fsDirs' = [fsDirs EXCEPT ![d].json = IF @ = "p2" THEN "p1" ELSE "p2",
                                ![d].toml = IF @ = "p1" THEN "p2" ELSE "p1"]
    /\ fsEdits' = fsEdits + 1
    /\ UNCHANGED fsRoot
    /\ UNCHANGED <<raceVars, onceVars, cfgVars, rwVars, cacheVars, titleVars, colorVars, scanVars>>

\* rank: how many units of the scan had completed when this one did
NewUnit(d) ==
    [dir |-> d, pc |-> "spawned", res |-> "none", title |-> <<>>, is_custom |-> FALSE,
     is_system |-> FALSE, colors |-> None, hit |-> FALSE, image |-> "", rank |-> 0]

Completed(units) == Cardinality({j \in DOMAIN units : units[j].pc = "done"})

\* load_themes_parallel up to the end of the spawning loop
ScanStart(order) ==
    /\ scPc \in {"idle", "done"}
    /\ scCount < MaxScans
    /\ scCount' = scCount + 1
    /\ scJoin' = 1
    /\ scThemes' = <<>>
    /\ scErrors' = <<>>
    /\ IF fsRoot # "ok"
       THEN /\ scResult' = Err(RootError(fsRoot))
            /\ scPc' = "done"
            /\ scPaths' = <<>>
            /\ scUnits' = <<>>
       ELSE /\ scPaths' = order
            /\ IF order = <<>>
               THEN /\ scResult' = Ok(<<>>)
                    /\ scPc' = "done"
                    /\ scUnits' = <<>>
               ELSE /\ scResult' = Err("")
                    /\ scPc' = "joining"
                    /\ scUnits' = [i \in 1..Len(order) |-> NewUnit(order[i])]
    /\ UNCHANGED <<raceVars, onceVars, cfgVars, rwVars, cacheVars, titleVars, colorVars, fsVars>>
    /\ UNCHANGED <<ccReturned, mdResult, mdUnits>>

\* generate_theme_from_directory_async up to the end of the cache lookup of
\* extract_theme_colors_cached, and on a miss the extraction that follows it
\* without an await
UnitBegin(i) ==
    /\ scPc = "joining"
    /\ i \in DOMAIN scUnits
    /\ scUnits[i].pc = "spawned"
    /\ LET d == scUnits[i].dir
           e == fsDirs[d]
           is_custom == IsCustom(e)
           cached == ColorCacheGet(colorCache, d)
           u == [scUnits[i] EXCEPT !.title = dir_name_to_title(d),
                                   !.is_custom = is_custom,
                                   !.is_system = IsSystem(e, is_custom)]
       IN  IF e.unit = "badname"
           THEN /\ scUnits' = [scUnits EXCEPT ![i].pc = "done", ![i].res = "err",
                                             ![i].rank = Completed(scUnits)]
                /\ UNCHANGED ccReturned
           ELSE IF e.unit = "panic"
           THEN /\ scUnits' = [scUnits EXCEPT ![i].pc = "done", ![i].res = "panic",
                                             ![i].rank = Completed(scUnits)]
                /\ UNCHANGED ccReturned
           ELSE IF IsSome(cached)
           THEN /\ scUnits' = [scUnits EXCEPT ![i] =
                       [u EXCEPT !.pc = "image", !.hit = TRUE,
                                 !.colors = ColorsOnHit(cached, e, is_custom)]]
                /\ ccReturned' = [x \in DOMAIN ccReturned \cup {d} |->
                                    IF x = d THEN ColorsOnHit(cached, e, is_custom)
                                    ELSE ccReturned[x]]
           ELSE /\ scUnits' = [scUnits EXCEPT ![i] =
                       [u EXCEPT !.pc = "set",
                                 !.colors = extract_theme_colors_direct(e, is_custom)]]
                /\ UNCHANGED ccReturned
    /\ UNCHANGED <<raceVars, onceVars, cfgVars, rwVars, cacheVars, titleVars, colorVars, fsVars>>
    /\ UNCHANGED <<scPc, scPaths, scJoin, scThemes, scErrors, scResult, scCount, mdResult, mdUnits>>

\* extract_theme_colors_cached: color_cache.set and the return
UnitSet(i) ==
    /\ scPc = "joining"
    /\ i \in DOMAIN scUnits
    /\ scUnits[i].pc = "set"
    /\ LET d == scUnits[i].dir
           c == scUnits[i].colors
       IN  /\ colorCache' = StoreAfterMiss(colorCache, d, c)
           /\ ccLast' = [x \in DOMAIN ccLast \cup {d} |-> IF x = d THEN c ELSE ccLast[x]]
           /\ ccReturned' = [x \in DOMAIN ccReturned \cup {d} |->
                               IF x = d THEN c ELSE ccReturned[x]]
    /\ scUnits' = [scUnits EXCEPT ![i].pc = "image"]
    /\ UNCHANGED <<raceVars, onceVars, cfgVars, rwVars, cacheVars, titleVars, fsVars, ccRet>>
    /\ UNCHANGED <<scPc, scPaths, scJoin, scThemes, scErrors, scResult, scCount, mdResult, mdUnits>>

\* load_theme_image_async and the Ok(SysTheme {..}) that ends the unit
UnitImage(i) ==
    /\ scPc = "joining"
    /\ i \in DOMAIN scUnits
    /\ scUnits[i].pc = "image"
    /\ scUnits' = [scUnits EXCEPT ![i].pc = "done", ![i].res = "ok",
                                  ![i].rank = Completed(scUnits),
                                  ![i].image = load_theme_image_async(fsDirs[scUnits[i].dir])]
    /\ UNCHANGED <<raceVars, onceVars, cfgVars, rwVars, cacheVars, titleVars, colorVars, fsVars>>
    /\ UNCHANGED <<scPc, scPaths, scJoin, scThemes, scErrors, scResult, scCount,
                   ccReturned, mdResult, mdUnits>>

ThemeOfUnit(u) == SysTheme(u.dir, u.title, u.image, u.is_system, u.is_custom, u.colors)

\* the collecting loop: handle.await for the next handle, and after the last
\* one the return of Ok(themes)
\* Mutant: the collecting loop takes the result that arrived last.
NextHandleLatest ==
    CHOOSE i \in DOMAIN scUnits :
        /\ scUnits[i].pc = "done"
        /\ \A j \in DOMAIN scUnits : scUnits[j].pc = "done" => scUnits[j].rank <= scUnits[i].rank

\* for handle in handles: the handles are awaited in the order of spawning
NextHandle == scJoin

\* Mutant: the collecting loop does not wait for the task behind the handle.
HandleReadyDetached(i) == TRUE

\* handle.await resolves when the spawned task has completed or panicked
HandleReady(i) == scUnits[i].pc = "done"

JoinNext ==
    /\ scPc = "joining"
    /\ scJoin \in DOMAIN scUnits
    /\ HandleReady(scJoin)
    /\ LET u == scUnits[NextHandle]
           themes == IF u.res = "ok" THEN Append(scThemes, ThemeOfUnit(u)) ELSE scThemes
           errors == IF u.res = "ok" THEN scErrors ELSE Append(scErrors, u.res)
       IN  /\ scThemes' = themes
           /\ scErrors' = errors
           /\ scJoin' = scJoin + 1
           /\ IF scJoin = Len(scUnits)
              THEN scPc' = "done" /\ scResult' = BatchResult(themes, errors)
              ELSE UNCHANGED <<scPc, scResult>>
    /\ UNCHANGED <<raceVars, onceVars, cfgVars, rwVars, cacheVars, titleVars, colorVars, fsVars>>
    /\ UNCHANGED <<scPaths, scUnits, scCount, ccReturned, mdResult, mdUnits>>

\* load_theme_metadata_only: its units read the filesystem and nothing else
load_theme_metadata_only(order) ==
    /\ scPc # "joining"
    /\ mdResult' = load_theme_metadata_only_result(fsRoot, fsDirs, order)
    /\ mdUnits' = IF fsRoot = "ok" THEN order ELSE <<>>
    /\ UNCHANGED <<raceVars, onceVars, cfgVars, rwVars, cacheVars, titleVars, colorVars, fsVars>>
    /\ UNCHANGED <<scPc, scPaths, scUnits, scJoin, scThemes, scErrors, scResult, scCount,
                   ccReturned>>

\* the themes root is removed between two calls of the loader, whose
\* results the callers have taken
RootRemoved ==
    /\ scPc = "done"
    /\ fsRoot = "ok"
    /\ fsRoot' = "missing"
    /\ fsDirs' = EmptyMap
    /\ scPc' = "idle"
    /\ scPaths' = <<>>
    /\ scUnits' = <<>>
    /\ scJoin' = 1
    /\ scThemes' = <<>>
    /\ scErrors' = <<>>
    /\ scResult' = Err("")
    /\ mdResult' = Err("")
    /\ mdUnits' = <<>>
    /\ UNCHANGED <<fsEdits, scCount, ccReturned>>
    /\ UNCHANGED <<raceVars, onceVars, cfgVars, rwVars, cacheVars, titleVars, colorVars>>

\* Mutant: the guard taken for the lookup is kept until the set that follows
\* the extraction.
ColorCacheGuardKeptUntilSet(u) == u.pc = "set"

\* ColorCache::get, ColorCache::set: the guard is a local of the method and
\* is dropped when it returns, so a unit between two of its steps holds none
ColorCacheGuardHeld(u) == FALSE

ColorCacheLockFree == \A i \in DOMAIN scUnits : ~ColorCacheGuardHeld(scUnits[i])

\* clear_color_cache by another caller once a scan has been started: it takes
\* the write lock of the ColorCache
ClearDuringScan ==
    /\ scCount > 0
    /\ ccRet.op # "clear"
    /\ ColorCacheLockFree
    /\ clear_cache

NextLoader ==
    \/ \E order \in Orders(ThemeDirsOf(fsDirs)) : ScanStart(order)
    \/ \E i \in 1..Cardinality(LoaderDirNames) : UnitBegin(i)
    \/ \E i \in 1..Cardinality(LoaderDirNames) : UnitSet(i)
    \/ \E i \in 1..Cardinality(LoaderDirNames) : UnitImage(i)
    \/ JoinNext
    \/ \E order \in Orders(ThemeDirsOf(fsDirs)) : load_theme_metadata_only(order)
    \/ \E d \in LoaderDirNames : FsEdit(d)
    \/ ClearDuringScan
    \/ RootRemoved

(***************************************************************************)
(* SpecLoaderFair: scans whose spawned units are scheduled. tokio runs     *)
(* every spawned task that can make progress, and the caller awaiting a    *)
(* completed handle is resumed: the steps of the units and of the          *)
(* collecting loop are weakly fair. Starting a scan, rewriting theme files *)
(* and clearing the ColorCache are up to the callers and need not happen.  *)
(***************************************************************************)
\* the themes of the fair scans: one with alacritty colors, a custom one, and
\* the two ways a unit fails
FairEntryKinds ==
    {Entry("dir", "ok", "absent", FALSE, "p1", "p2", "none"),
     Entry("dir", "ok", "file", FALSE, "p1", "p2", "none"),
     Entry("dir", "badname", "file", FALSE, "p1", "absent", "ok"),
     Entry("dir", "panic", "file", FALSE, "p1", "absent", "ok")}

InitFsFair ==
    /\ fsRoot = "ok"
    /\ \E S \in SUBSET LoaderDirNames : fsDirs \in [S -> FairEntryKinds]
    /\ fsEdits = 0

NextLoaderFair ==
    \/ \E order \in Orders(ThemeDirsOf(fsDirs)) : ScanStart(order)
    \/ \E i \in 1..Cardinality(LoaderDirNames) : UnitBegin(i)
    \/ \E i \in 1..Cardinality(LoaderDirNames) : UnitSet(i)
    \/ \E i \in 1..Cardinality(LoaderDirNames) : UnitImage(i)
    \/ JoinNext
    \/ \E d \in LoaderDirNames : FsEdit(d)
    \/ ClearDuringScan

UnitsScheduled ==
    \A i \in 1..Cardinality(LoaderDirNames) :
        WF_vars(UnitBegin(i)) /\ WF_vars(UnitSet(i)) /\ WF_vars(UnitImage(i))

(***************************************************************************)
(* A whole scan as one caller sees it when nothing else runs in between:   *)
(* the units one after the other, each made of the steps UnitBegin,        *)
(* UnitSet and UnitImage above.                                            *)
(***************************************************************************)
generate_theme_from_directory_async(d, e, cache) ==
    IF e.unit = "badname" THEN [res |-> Err("Invalid directory name"), cache |-> cache]
    ELSE IF e.unit = "panic" THEN [res |-> Err("Task join error"), cache |-> cache]
    ELSE LET is_custom == IsCustom(e)
             is_system == IsSystem(e, is_custom)
             cached == ColorCacheGet(cache, d)
             colors == IF IsSome(cached) THEN ColorsOnHit(cached, e, is_custom)
                       ELSE extract_theme_colors_direct(e, is_custom)
         IN  [res |-> Ok(SysTheme(d, dir_name_to_title(d), load_theme_image_async(e),
                                  is_system, is_custom, colors)),
              cache |-> IF IsSome(cached) THEN cache ELSE StoreAfterMiss(cache, d, colors)]

RECURSIVE RunUnits(_, _, _, _, _, _)
RunUnits(dirs, order, i, themes, errors, cache) ==
    IF i > Len(order) THEN [themes |-> themes, errors |-> errors, cache |-> cache]
    ELSE LET Joined(u) ==
                 IF u.res.ok
                 THEN RunUnits(dirs, order, i + 1, Append(themes, u.res.val), errors, u.cache)
                 ELSE RunUnits(dirs, order, i + 1, themes, Append(errors, u.res.err), u.cache)
         IN  Joined(generate_theme_from_directory_async(order[i], dirs[order[i]], cache))

\* Mutant: a root without theme directories is reported as an error.
load_themes_parallel_empty_is_error(root, dirs, order, cache) ==
    IF root # "ok" THEN [res |-> Err(RootError(root)), cache |-> cache]
    ELSE IF order = <<>> THEN [res |-> Err("No themes found"), cache |-> cache]
    ELSE LET Collected(all) ==
                 [res |-> BatchResult(all.themes, all.errors), cache |-> all.cache]
         IN  Collected(RunUnits(dirs, order, 1, <<>>, <<>>, cache))

load_themes_parallel(root, dirs, order, cache) ==
    IF root # "ok" THEN [res |-> Err(RootError(root)), cache |-> cache]
    ELSE IF order = <<>> THEN [res |-> Ok(<<>>), cache |-> cache]
    ELSE LET Collected(all) ==
                 [res |-> BatchResult(all.themes, all.errors), cache |-> all.cache]
         IN  Collected(RunUnits(dirs, order, 1, <<>>, <<>>, cache))

(***************************************************************************)
(* ThemeCache (services/cache, not among the sources): its operations as   *)
(* the specification states them, sections 3 and 4.1. A snapshot is the    *)
(* theme list and the time it was last refreshed.                          *)
(***************************************************************************)
Snapshot(themes, at) == [themes |-> themes, last_refreshed_at |-> at]

\* Mutant: the age of the snapshot is not looked at.
is_cache_valid_ignoring_age(snap, cfg, t) == snap.themes # <<>>

is_cache_valid(snap, cfg, t) ==
    /\ snap.themes # <<>>
    /\ t - snap.last_refreshed_at < cfg.cache_duration_minutes

is_empty(snap) == snap.themes = <<>>

get_themes(snap) == Ok(snap.themes)

\* is_partial = false, the only value the callers pass: the list replaces the
\* snapshot; a list longer than max_cache_size is rejected or truncated
cache_themes(snap, cfg, oversize, themes, t) ==
    IF Len(themes) > cfg.max_cache_size
    THEN IF oversize = "reject"
         THEN [res |-> Err("max_cache_size exceeded"), snap |-> snap]
         ELSE [res |-> Ok(<<>>),
               snap |-> Snapshot(SubSeq(themes, 1, cfg.max_cache_size), t)]
    ELSE [res |-> Ok(<<>>), snap |-> Snapshot(themes, t)]

invalidate(snap) == Snapshot(<<>>, snap.last_refreshed_at)

invalidate_themes(snap, ids) ==
    Snapshot(SelectSeq(snap.themes, LAMBDA th : th.dir \notin ids), snap.last_refreshed_at)

invalidate_theme(snap, id) == invalidate_themes(snap, {id})

invalidate_custom_themes(snap) ==
    Snapshot(SelectSeq(snap.themes, LAMBDA th : ~th.is_custom), snap.last_refreshed_at)

invalidate_system_themes(snap) ==
    Snapshot(SelectSeq(snap.themes, LAMBDA th : ~th.is_system), snap.last_refreshed_at)

NoRefresh == [called |-> FALSE, loaded |-> FALSE, before |-> Snapshot(<<>>, 0),
              after |-> Snapshot(<<>>, 0), res |-> Err("")]

\* Mutant: the snapshot is emptied before the loading path is tried.
trigger_background_refresh_blanking(snap, cc, order, cfg, oversize, t, root, dirs) ==
    LET l == load_themes_parallel(root, dirs, order, cc)
        c == cache_themes(snap, cfg, oversize, l.res.val, t)
    IN  IF l.res.ok /\ c.res.ok
        THEN [res |-> Ok(l.res.val), snap |-> c.snap, cc |-> l.cache, loaded |-> TRUE]
        ELSE [res |-> Err("refresh failed"), snap |-> invalidate(snap), cc |-> l.cache,
              loaded |-> l.res.ok]

\* the loading path, then cache_themes(.., false); on failure the snapshot is
\* as it was and the error is returned
trigger_background_refresh(snap, cc, order, cfg, oversize, t, root, dirs) ==
    LET Stored(l, c) ==
            IF ~c.res.ok
            THEN [res |-> c.res, snap |-> snap, cc |-> l.cache, loaded |-> TRUE]
            ELSE [res |-> Ok(l.res.val), snap |-> c.snap, cc |-> l.cache, loaded |-> TRUE]
        Loaded(l) ==
            IF ~l.res.ok
            THEN [res |-> l.res, snap |-> snap, cc |-> l.cache, loaded |-> FALSE]
            ELSE Stored(l, cache_themes(snap, cfg, oversize, l.res.val, t))
    IN  Loaded(load_themes_parallel(root, dirs, order, cc))

(***************************************************************************)
(* The commands of get_sys_themes.rs, each from its first line to its      *)
(* return. A command's outcome: what it returns, the snapshot and the      *)
(* color cache it leaves, whether the themes came from the cache or from a *)
(* scan, and its call of trigger_background_refresh if it made one.        *)
(***************************************************************************)
Outcome(res, snap, cc, via, refresh) ==
    [res |-> res, snap |-> snap, cc |-> cc, via |-> via, tbr |-> refresh]

\* Mutant: the scanned list is returned without being cached.
get_sys_themes_direct_unstored(snap, cc, order) ==
    LET l == load_themes_parallel(fsRoot, fsDirs, order, cc)
    IN  Outcome(l.res, snap, l.cache, "scan", NoRefresh)

get_sys_themes_direct(snap, cc, order) ==
    LET Loaded(l) ==
            IF ~l.res.ok THEN Outcome(l.res, snap, l.cache, "scan", NoRefresh)
            ELSE Outcome(Ok(l.res.val),
                         IF tcAvail
                         THEN cache_themes(snap, tcConfig, tcOversize, l.res.val, now).snap
                         ELSE snap,
                         l.cache, "scan", NoRefresh)
    IN  Loaded(load_themes_parallel(fsRoot, fsDirs, order, cc))

\* Mutant: the snapshot is served whenever it holds themes, expired or not.
get_sys_themes_nonempty_only(snap, cc, order) ==
    IF tcAvail /\ ~is_empty(snap) /\ get_themes(snap).ok
    THEN Outcome(Ok(get_themes(snap).val), snap, cc, "cache", NoRefresh)
    ELSE get_sys_themes_direct(snap, cc, order)

get_sys_themes(snap, cc, order) ==
    IF tcAvail /\ is_cache_valid(snap, tcConfig, now) /\ ~is_empty(snap)
              /\ get_themes(snap).ok
    THEN Outcome(Ok(get_themes(snap).val), snap, cc, "cache", NoRefresh)
    ELSE get_sys_themes_direct(snap, cc, order)

\* Mutant: the error of the failed scan is returned whatever the cache holds.
get_themes_cached_no_fallback(snap, cc, order) ==
    IF tcAvail /\ is_cache_valid(snap, tcConfig, now) /\ ~is_empty(snap)
              /\ get_themes(snap).ok
    THEN Outcome(Ok(get_themes(snap).val), snap, cc, "cache", NoRefresh)
    ELSE LET g == get_sys_themes(snap, cc, order)
         IN  IF g.res.ok /\ tcAvail
             THEN Outcome(Ok(g.res.val),
                          cache_themes(g.snap, tcConfig, tcOversize, g.res.val, now).snap,
                          g.cc, g.via, NoRefresh)
             ELSE g

get_themes_cached(snap, cc, order) ==
    IF tcAvail
    THEN IF is_cache_valid(snap, tcConfig, now) /\ ~is_empty(snap) /\ get_themes(snap).ok
         THEN Outcome(Ok(get_themes(snap).val), snap, cc, "cache", NoRefresh)
         ELSE LET Fresh(g, cached) ==
                      IF g.res.ok
                      THEN Outcome(Ok(g.res.val),
                                   cache_themes(g.snap, tcConfig, tcOversize, g.res.val,
                                                now).snap,
                                   g.cc, g.via, NoRefresh)
                      ELSE IF cached.ok /\ cached.val # <<>>
                      THEN Outcome(Ok(cached.val), g.snap, g.cc, "stale", NoRefresh)
                      ELSE Outcome(Err(g.res.err), g.snap, g.cc, g.via, NoRefresh)
                  Scanned(g) == Fresh(g, get_themes(g.snap))
              IN  Scanned(get_sys_themes(snap, cc, order))
    ELSE get_sys_themes(snap, cc, order)

\* Mutant: the reload is made over the snapshot as it is, not invalidated.
refresh_theme_cache_without_invalidate(snap, cc, order) ==
    LET g == get_sys_themes_direct(snap, ColorCacheClear(cc), order)
    IN  IF g.res.ok THEN g
        ELSE Outcome(Err("Failed to load themes during cache refresh"),
                     g.snap, g.cc, g.via, NoRefresh)

\* Mutant: the ColorCache is not cleared before the reload.
refresh_theme_cache_keeping_colors(snap, cc, order) ==
    IF tcAvail
    THEN LET Reloaded(g) ==
                 IF g.res.ok
                 THEN Outcome(Ok(g.res.val),
                              cache_themes(g.snap, tcConfig, tcOversize, g.res.val,
                                           now).snap,
                              g.cc, g.via, NoRefresh)
                 ELSE Outcome(Err("Failed to load themes during cache refresh"),
                              g.snap, g.cc, g.via, NoRefresh)
         IN  Reloaded(get_sys_themes(invalidate(snap), cc, order))
    ELSE get_sys_themes(snap, cc, order)

refresh_theme_cache(snap, cc, order) ==
    LET cleared == ColorCacheClear(cc)
    IN  IF tcAvail
        THEN LET Reloaded(g) ==
                     IF g.res.ok
                     THEN Outcome(Ok(g.res.val),
                                  cache_themes(g.snap, tcConfig, tcOversize, g.res.val,
                                               now).snap,
                                  g.cc, g.via, NoRefresh)
                     ELSE Outcome(Err("Failed to load themes during cache refresh"),
                                  g.snap, g.cc, g.via, NoRefresh)
             IN  Reloaded(get_sys_themes(invalidate(snap), cleared, order))
        ELSE get_sys_themes(snap, cleared, order)

invalidate_and_refresh_cache(snap, cc, order) ==
    IF tcAvail
    THEN LET before == invalidate(snap)
             Refreshed(r) ==
                 Outcome(r.res, r.snap, r.cc, "refresh",
                         [called |-> TRUE, loaded |-> r.loaded, before |-> before,
                          after |-> r.snap, res |-> r.res])
         IN  Refreshed(trigger_background_refresh(before, cc, order, tcConfig, tcOversize,
                                                  now, fsRoot, fsDirs))
    ELSE get_sys_themes(snap, cc, order)

\* Mutant: the metadata are taken from the themes of the cache-first path.
get_theme_metadata_from_themes(snap, cc, order) ==
    LET Described(g) ==
            Outcome(IF g.res.ok
                    THEN Ok([i \in DOMAIN g.res.val |->
                                ThemeMetadata(g.res.val[i].dir, g.res.val[i].title,
                                              g.res.val[i].is_system, g.res.val[i].is_custom,
                                              g.res.val[i].colors # None,
                                              g.res.val[i].image # "")])
                    ELSE g.res,
                    g.snap, g.cc, "metadata", NoRefresh)
    IN  Described(get_sys_themes(snap, cc, order))

get_theme_metadata(snap, cc, order) ==
    Outcome(load_theme_metadata_only_result(fsRoot, fsDirs, order), snap, cc, "metadata",
            NoRefresh)

\* Mutant: the whole cache is invalidated where one theme was named.
invalidate_theme_cache_all(snap, theme_dir) ==
    IF tcAvail THEN invalidate(snap) ELSE snap

invalidate_theme_cache(snap, theme_dir) ==
    IF tcAvail THEN invalidate_theme(snap, theme_dir) ELSE snap

invalidate_themes_cache(snap, theme_dirs) ==
    IF tcAvail THEN invalidate_themes(snap, theme_dirs) ELSE snap

\* Mutant: the command for the custom themes invalidates the system themes.
invalidate_custom_themes_cache_swapped(snap) ==
    IF tcAvail THEN invalidate_system_themes(snap) ELSE snap

invalidate_custom_themes_cache(snap) ==
    IF tcAvail THEN invalidate_custom_themes(snap) ELSE snap

invalidate_system_themes_cache(snap) ==
    IF tcAvail THEN invalidate_system_themes(snap) ELSE snap

(***************************************************************************)
(* Spec: the commands called one after the other while time passes and     *)
(* the themes root changes.                                                *)
(***************************************************************************)
MaxTime == 2

\* valid configurations (cache_duration_minutes > 0, max_cache_size > 0)
CacheConfigs ==
    {[cache_duration_minutes |-> 1, max_cache_size |-> 1],
     [cache_duration_minutes |-> 2, max_cache_size |-> 2]}

\* the themes the commands are run on: neither custom nor system, system,
\* custom, and one whose unit fails
CacheEntryKinds ==
    {Entry("dir", "ok", "absent", FALSE, "p1", "p2", "none"),
     Entry("dir", "ok", "absent", TRUE, "unreadable", "empty", "taskfail"),
     Entry("dir", "ok", "file", FALSE, "p1", "p2", "none"),
     Entry("dir", "panic", "file", FALSE, "p1", "absent", "ok")}

InitCacheIdle ==
    /\ tcAvail = TRUE
    /\ snapshot = Snapshot(<<>>, 0)
    /\ tcConfig = [cache_duration_minutes |-> 1, max_cache_size |-> 1]
    /\ tcOversize = "reject"
    /\ now = 0
    /\ ret = [cmd |-> "none", arg |-> {}, res |-> Err(""), via |-> "none"]
    /\ pre = Snapshot(<<>>, 0)
    /\ tbr = NoRefresh

InitCache ==
    /\ tcAvail \in BOOLEAN
    /\ snapshot = Snapshot(<<>>, 0)
    /\ tcConfig \in CacheConfigs
    /\ tcOversize \in {"reject", "truncate"}
    /\ now = 0
    /\ ret = [cmd |-> "none", arg |-> {}, res |-> Err(""), via |-> "none"]
    /\ pre = Snapshot(<<>>, 0)
    /\ tbr = NoRefresh
    /\ fsRoot \in {"ok", "missing"}
    /\ \E S \in SUBSET LoaderDirNames :
          /\ fsRoot # "ok" => S = {}
          /\ fsDirs \in [S -> CacheEntryKinds]
    /\ fsEdits = 0

\* a command that returns a theme list
Returns(name, out) ==
    /\ \E o \in {out} :
          /\ ret' = [cmd |-> name, arg |-> {}, res |-> o.res, via |-> o.via]
          /\ snapshot' = o.snap
          /\ colorCache' = o.cc
          /\ tbr' = o.tbr
    /\ pre' = snapshot
    /\ UNCHANGED <<tcAvail, tcConfig, tcOversize, now>>
    /\ UNCHANGED <<titleVars, fsVars, scanVars, ccRet, ccLast>>
    /\ UNCHANGED <<raceVars, onceVars, cfgVars, rwVars>>

\* a command that returns Ok(()) after an invalidation
Invalidates(name, dirs, snap) ==
    /\ ret' = [cmd |-> name, arg |-> dirs, res |-> Ok(<<>>), via |-> "none"]
    /\ pre' = snapshot
    /\ snapshot' = snap
    /\ tbr' = NoRefresh
    /\ UNCHANGED <<tcAvail, tcConfig, tcOversize, now>>
    /\ UNCHANGED <<titleVars, colorVars, fsVars, scanVars>>
    /\ UNCHANGED <<raceVars, onceVars, cfgVars, rwVars>>

\* something other than a command happens
Elsewhere(what) ==
    /\ ret' = [cmd |-> what, arg |-> {}, res |-> Err(""), via |-> "none"]
    /\ pre' = snapshot
    /\ tbr' = NoRefresh
    /\ UNCHANGED <<tcAvail, snapshot, tcConfig, tcOversize>>
    /\ UNCHANGED <<titleVars, colorVars, scanVars>>
    /\ UNCHANGED <<raceVars, onceVars, cfgVars, rwVars>>

CmdGetSysThemes(order) ==
    Returns("get_sys_themes", get_sys_themes(snapshot, colorCache, order))

CmdGetThemesCached(order) ==
    Returns("get_themes_cached", get_themes_cached(snapshot, colorCache, order))

CmdRefreshThemeCache(order) ==
    Returns("refresh_theme_cache", refresh_theme_cache(snapshot, colorCache, order))

CmdInvalidateAndRefreshCache(order) ==
    Returns("invalidate_and_refresh_cache",
            invalidate_and_refresh_cache(snapshot, colorCache, order))

CmdGetThemeMetadata(order) ==
    Returns("get_theme_metadata", get_theme_metadata(snapshot, colorCache, order))

\* ThemeCache::trigger_background_refresh called on its own (the periodic
\* refresh of background_refresh_interval)
BackgroundRefresh(order) ==
    /\ tcAvail
    /\ LET Refreshed(r) ==
               Outcome(r.res, r.snap, r.cc, "refresh",
                       [called |-> TRUE, loaded |-> r.loaded, before |-> snapshot,
                        after |-> r.snap, res |-> r.res])
       IN  Returns("trigger_background_refresh",
                   Refreshed(trigger_background_refresh(snapshot, colorCache, order, tcConfig,
                                                        tcOversize, now, fsRoot, fsDirs)))

CmdInvalidateThemeCache(theme_dir) ==
    Invalidates("invalidate_theme_cache", {theme_dir},
                invalidate_theme_cache(snapshot, theme_dir))

CmdInvalidateThemesCache(theme_dirs) ==
    Invalidates("invalidate_themes_cache", theme_dirs,
                invalidate_themes_cache(snapshot, theme_dirs))

CmdInvalidateCustomThemesCache ==
    Invalidates("invalidate_custom_themes_cache", {},
                invalidate_custom_themes_cache(snapshot))

CmdInvalidateSystemThemesCache ==
    Invalidates("invalidate_system_themes_cache", {},
                invalidate_system_themes_cache(snapshot))

Tick ==
    /\ now < MaxTime
    /\ now' = now + 1
    /\ Elsewhere("tick")
    /\ UNCHANGED fsVars

\* the themes root is removed with all it holds
RootVanish ==
    /\ fsRoot = "ok"
    /\ fsRoot' = "missing"
    /\ fsDirs' = EmptyMap
    /\ Elsewhere("root removed")
    /\ UNCHANGED <<now, fsEdits>>

\* the themes root loses or regains its read permission
RootChmod ==
    /\ fsRoot \in {"ok", "unreadable"}
    /\ fsRoot' = IF fsRoot = "ok" THEN "unreadable" ELSE "ok"
    /\ Elsewhere("root chmod")
    /\ UNCHANGED <<now, fsDirs, fsEdits>>

Next ==
    \/ \E order \in Orders(ThemeDirsOf(fsDirs)) : CmdGetSysThemes(order)
    \/ \E order \in Orders(ThemeDirsOf(fsDirs)) : CmdGetThemesCached(order)
    \/ \E order \in Orders(ThemeDirsOf(fsDirs)) : CmdRefreshThemeCache(order)
    \/ \E order \in Orders(ThemeDirsOf(fsDirs)) : CmdInvalidateAndRefreshCache(order)
    \/ \E order \in Orders(ThemeDirsOf(fsDirs)) : BackgroundRefresh(order)
    \/ \E order \in Orders(ThemeDirsOf(fsDirs)) : CmdGetThemeMetadata(order)
    \/ \E d \in ThemeDirNames : CmdInvalidateThemeCache(d)
    \/ \E ds \in SUBSET LoaderDirNames : CmdInvalidateThemesCache(ds)
    \/ CmdInvalidateCustomThemesCache
    \/ CmdInvalidateSystemThemesCache
    \/ Tick
    \/ RootVanish
    \/ RootChmod

ThemesOf(snap) == {snap.themes[i] : i \in DOMAIN snap.themes}

(***************************************************************************)
(* SpecRW: the ThemeCache operations called concurrently. Each operation   *)
(* is one read/write lock scope (specification, section 5): a mutation     *)
(* takes the lock for writing, changes the stored list piece by piece and  *)
(* releases it; get_themes takes it for reading, copies the list and       *)
(* releases it.                                                            *)
(***************************************************************************)
RWProcs == {1, 2, 3}

MaxOps == 4

RWCustom == SysTheme(<<"a">>, <<"A">>, "", FALSE, TRUE, Some("p1"))

RWSystem == SysTheme(<<"b">>, <<"B">>, "", TRUE, FALSE, Some("p2"))

RWPlain == SysTheme(<<"c">>, <<"C">>, "", FALSE, FALSE, None)

\* the lists handed to cache_themes
RWLists ==
    {<<RWCustom, RWSystem>>, <<RWSystem, RWPlain>>, <<RWPlain>>,
     <<RWPlain, RWCustom, RWSystem>>}

\* the mutating operations and what each makes of a snapshot
RWMutations ==
    {[op |-> "cache_themes", themes |-> l, dirs |-> {}] : l \in RWLists}
    \cup {[op |-> o, themes |-> <<>>, dirs |-> {}] :
            o \in {"invalidate", "invalidate_custom_themes", "invalidate_system_themes"}}
    \cup {[op |-> "invalidate_theme", themes |-> <<>>, dirs |-> {<<"b">>}],
          [op |-> "invalidate_themes", themes |-> <<>>, dirs |-> {<<"a">>, <<"c">>}]}

RWGoal(m, snap) ==
    CASE m.op = "cache_themes" ->
             cache_themes(snap, tcConfig, tcOversize, m.themes, now).snap
      [] m.op = "invalidate" -> invalidate(snap)
      [] m.op = "invalidate_theme" -> invalidate_theme(snap, CHOOSE d \in m.dirs : TRUE)
      [] m.op = "invalidate_themes" -> invalidate_themes(snap, m.dirs)
      [] m.op = "invalidate_custom_themes" -> invalidate_custom_themes(snap)
      [] m.op = "invalidate_system_themes" -> invalidate_system_themes(snap)

RWIdle == [pc |-> "idle", op |-> "none", goal |-> Snapshot(<<>>, 0), begun |-> FALSE]

InitRWIdle ==
    /\ rwWriter = 0
    /\ rwReaders = {}
    /\ rwProc = [p \in RWProcs |-> RWIdle]
    /\ rwOps = 0
    /\ rwCommitted = {<<>>}
    /\ rwLatest = <<>>
    /\ rwGot = [taken |-> FALSE, val |-> <<>>, latest |-> <<>>]

InitRW ==
    /\ InitRWIdle
    /\ tcAvail = TRUE
    /\ snapshot = Snapshot(<<>>, 0)
    /\ tcConfig = [cache_duration_minutes |-> 2, max_cache_size |-> 2]
    /\ tcOversize \in {"reject", "truncate"}
    /\ now = 0
    /\ ret = [cmd |-> "none", arg |-> {}, res |-> Err(""), via |-> "none"]
    /\ pre = Snapshot(<<>>, 0)
    /\ tbr = NoRefresh

\* Mutant: a reader does not wait for the writer.
CanReadAnyTime == TRUE

\* readers share the lock with each other, never with a writer
CanRead == rwWriter = 0

CanWrite == rwWriter = 0 /\ rwReaders = {}

RWFrame ==
    /\ UNCHANGED <<tcAvail, tcConfig, tcOversize, now, ret, pre, tbr>>
    /\ UNCHANGED <<cfgVars, onceVars, raceVars>>
    /\ UNCHANGED <<titleVars, colorVars, fsVars, scanVars>>

WriteAcquire(p, m) ==
    /\ rwProc[p].pc = "idle"
    /\ rwOps < MaxOps
    /\ CanWrite
    /\ rwWriter' = p
    /\ rwProc' = [rwProc EXCEPT ![p] = [pc |-> "writing", op |-> m.op,
                                        goal |-> RWGoal(m, snapshot), begun |-> FALSE]]
    /\ rwOps' = rwOps + 1
    /\ UNCHANGED <<snapshot, rwReaders, rwCommitted, rwLatest, rwGot>>
    /\ RWFrame

\* cache_themes empties the stored list before it fills it
WriteClear(p) ==
    /\ rwProc[p].pc = "writing"
    /\ rwProc[p].op = "cache_themes"
    /\ ~rwProc[p].begun
    /\ rwProc[p].goal # snapshot
    /\ snapshot' = [snapshot EXCEPT !.themes = <<>>]
    /\ rwProc' = [rwProc EXCEPT ![p].begun = TRUE]
    /\ UNCHANGED <<rwWriter, rwReaders, rwOps, rwCommitted, rwLatest, rwGot>>
    /\ RWFrame

WritePush(p) ==
    /\ rwProc[p].pc = "writing"
    /\ rwProc[p].op = "cache_themes"
    /\ rwProc[p].begun
    /\ Len(snapshot.themes) < Len(rwProc[p].goal.themes)
    /\ snapshot' = [snapshot EXCEPT
                       !.themes = Append(@, rwProc[p].goal.themes[Len(@) + 1])]
    /\ UNCHANGED <<rwWriter, rwReaders, rwProc, rwOps, rwCommitted, rwLatest, rwGot>>
    /\ RWFrame

\* an invalidation removes the themes it names one after the other
WriteRemove(p) ==
    /\ rwProc[p].pc = "writing"
    /\ rwProc[p].op # "cache_themes"
    /\ \E i \in DOMAIN snapshot.themes :
          /\ snapshot.themes[i] \notin ThemesOf(rwProc[p].goal)
          /\ \A j \in 1..(i - 1) : snapshot.themes[j] \in ThemesOf(rwProc[p].goal)
          /\ snapshot' = [snapshot EXCEPT
                             !.themes = SubSeq(@, 1, i - 1) \o SubSeq(@, i + 1, Len(@))]
    /\ UNCHANGED <<rwWriter, rwReaders, rwProc, rwOps, rwCommitted, rwLatest, rwGot>>
    /\ RWFrame

WriteRelease(p) ==
    /\ rwProc[p].pc = "writing"
    /\ snapshot.themes = rwProc[p].goal.themes
    /\ snapshot' = rwProc[p].goal
    /\ rwWriter' = 0
    /\ rwProc' = [rwProc EXCEPT ![p] = RWIdle]
    /\ rwCommitted' = rwCommitted \cup {rwProc[p].goal.themes}
    /\ rwLatest' = rwProc[p].goal.themes
    /\ UNCHANGED <<rwReaders, rwOps, rwGot>>
    /\ RWFrame

ReadAcquire(p) ==
    /\ rwProc[p].pc = "idle"
    /\ rwOps < MaxOps
    /\ CanRead
    /\ rwReaders' = rwReaders \cup {p}
    /\ rwProc' = [rwProc EXCEPT ![p].pc = "reading", ![p].op = "get_themes"]
    /\ rwOps' = rwOps + 1
    /\ UNCHANGED <<snapshot, rwWriter, rwCommitted, rwLatest, rwGot>>
    /\ RWFrame

\* get_themes clones the list and drops the lock
ReadReturn(p) ==
    /\ rwProc[p].pc = "reading"
    /\ rwGot' = [taken |-> TRUE, val |-> get_themes(snapshot).val, latest |-> rwLatest]
    /\ rwReaders' = rwReaders \ {p}
    /\ rwProc' = [rwProc EXCEPT ![p] = RWIdle]
    /\ UNCHANGED <<snapshot, rwWriter, rwOps, rwCommitted, rwLatest>>
    /\ RWFrame

NextRW ==
    \/ \E p \in RWProcs, m \in RWMutations : WriteAcquire(p, m)
    \/ \E p \in RWProcs : WriteClear(p)
    \/ \E p \in RWProcs : WritePush(p)
    \/ \E p \in RWProcs : WriteRemove(p)
    \/ \E p \in RWProcs : WriteRelease(p)
    \/ \E p \in RWProcs : ReadAcquire(p)
    \/ \E p \in RWProcs : ReadReturn(p)

\* C6: whatever the interleaving of the mutations and of get_themes, a
\* get_themes returns the whole list as a completed mutation left it (or the
\* initial empty one): the list the last completed mutation left, never a
\* list that a mutation under way has partly written.
C6_ReadsSeeWholeSnapshots ==
    rwGot.taken =>
        /\ rwGot.val \in rwCommitted
        /\ rwGot.val = rwGot.latest

\* a get_themes returned a list that a cache_themes and then an invalidation
\* had left, while another reader was still holding the lock
C6_Witness ==
    /\ rwGot.taken
    /\ rwGot.val # <<>>
    /\ Cardinality(rwCommitted) >= 3
    /\ rwReaders # {}

(***************************************************************************)
(* SpecConfig: the cache configuration manager of cache_config.rs called   *)
(* with any configuration, any of its file operations failing.             *)
(***************************************************************************)
DefaultCacheDurationMinutes == 5

DefaultBackgroundRefreshInterval == 10

DefaultMaxCacheSize == 1000

CacheConfig(duration, preload, interval, size) ==
    [cache_duration_minutes |-> duration, preload_on_startup |-> preload,
     background_refresh_interval |-> interval, max_cache_size |-> size]

AppCacheConfig(theme_cache, enable_persistence, cache_directory) ==
    [theme_cache |-> theme_cache, enable_persistence |-> enable_persistence,
     cache_directory |-> cache_directory]

AppCacheConfigDefault ==
    AppCacheConfig(CacheConfig(DefaultCacheDurationMinutes, TRUE,
                               DefaultBackgroundRefreshInterval, DefaultMaxCacheSize),
                   FALSE, None)

\* the CacheConfig values the callers submit (u32 fields: 0 and above)
ThemeConfigs ==
    {CacheConfig(d, TRUE, i, m) : d \in {0, 1, DefaultCacheDurationMinutes},
                                  i \in {0, DefaultBackgroundRefreshInterval},
                                  m \in {0, DefaultMaxCacheSize}}

\* cache_directory: absent, absolute, relative, empty
CacheDirectories ==
    {None, Some(<<"/", "t">>), Some(<<"r", "/", "p">>), Some(<<>>)}

AppConfigs == {AppCacheConfig(tc, FALSE, cd) : tc \in ThemeConfigs, cd \in CacheDirectories}

\* the configurations submitted for saving: two valid theme configurations
\* and one for each field that can be 0
SubmittedThemeConfigs ==
    {tc \in ThemeConfigs :
        Cardinality({f \in {"cache_duration_minutes", "background_refresh_interval",
                            "max_cache_size"} : tc[f] = 0}) <= 1
        /\ (tc.cache_duration_minutes = 1 => tc.background_refresh_interval # 0
                                              /\ tc.max_cache_size # 0)}

SubmittedConfigs ==
    {AppCacheConfig(tc, FALSE, cd) :
        tc \in SubmittedThemeConfigs, cd \in CacheDirectories \ {Some(<<>>)}}

\* which file operation of a call fails, if any
IoOutcomes == {"ok", "nopath", "noread", "nowrite"}

\* Path::is_absolute
is_absolute(path) == path # <<>> /\ Head(path) = "/"

\* Mutant: the refresh interval is not looked at.
validate_config_without_interval(config) ==
    IF config.theme_cache.cache_duration_minutes = 0
    THEN Err("Cache duration must be greater than 0")
    ELSE IF config.theme_cache.max_cache_size = 0
    THEN Err("Max cache size must be greater than 0")
    ELSE IF IsSome(config.cache_directory) /\ ~is_absolute(Unwrap(config.cache_directory))
    THEN Err("Cache directory must be an absolute path")
    ELSE Ok(<<>>)

validate_config(config) ==
    IF config.theme_cache.cache_duration_minutes = 0
    THEN Err("Cache duration must be greater than 0")
    ELSE IF config.theme_cache.max_cache_size = 0
    THEN Err("Max cache size must be greater than 0")
    ELSE IF config.theme_cache.background_refresh_interval = 0
    THEN Err("Background refresh interval must be greater than 0")
    ELSE IF IsSome(config.cache_directory) /\ ~is_absolute(Unwrap(config.cache_directory))
    THEN Err("Cache directory must be an absolute path")
    ELSE Ok(<<>>)

\* toml::to_string_pretty: one line per field that has a value, the lines of
\* the [theme_cache] table after the top-level ones
to_string_pretty(config) ==
    <<<<"enable_persistence", config.enable_persistence>>>>
    \o (IF IsSome(config.cache_directory)
        THEN <<<<"cache_directory", Unwrap(config.cache_directory)>>>>
        ELSE <<>>)
    \o <<<<"[theme_cache]">>,
         <<"cache_duration_minutes", config.theme_cache.cache_duration_minutes>>,
         <<"preload_on_startup", config.theme_cache.preload_on_startup>>,
         <<"background_refresh_interval", config.theme_cache.background_refresh_interval>>,
         <<"max_cache_size", config.theme_cache.max_cache_size>>>>

TomlHas(text, key) == \E i \in DOMAIN text : text[i][1] = key

TomlValue(text, key) == text[CHOOSE i \in DOMAIN text : text[i][1] = key][2]

\* toml::from_str::<AppCacheConfig>: cache_directory may be absent, every
\* other field is needed
from_str(text) ==
    IF \A key \in {"enable_persistence", "cache_duration_minutes", "preload_on_startup",
                   "background_refresh_interval", "max_cache_size"} : TomlHas(text, key)
    THEN Ok(AppCacheConfig(
                CacheConfig(TomlValue(text, "cache_duration_minutes"),
                            TomlValue(text, "preload_on_startup"),
                            TomlValue(text, "background_refresh_interval"),
                            TomlValue(text, "max_cache_size")),
                TomlValue(text, "enable_persistence"),
                IF TomlHas(text, "cache_directory")
                THEN Some(TomlValue(text, "cache_directory")) ELSE None))
    ELSE Err("Failed to parse cache config")

save_config(file, config, io) ==
    IF io = "nopath"
    THEN [res |-> Err("Failed to get app data directory"), file |-> file]
    ELSE IF io = "nowrite"
    THEN [res |-> Err("Failed to write cache config"), file |-> file]
    ELSE [res |-> Ok(<<>>), file |-> Some(to_string_pretty(config))]

load_config(file, io) ==
    IF io = "nopath"
    THEN [res |-> Err("Failed to get app data directory"), file |-> file]
    ELSE IF IsSome(file)
    THEN IF io = "noread"
         THEN [res |-> Err("Failed to read cache config"), file |-> file]
         ELSE [res |-> from_str(Unwrap(file)), file |-> file]
    ELSE LET saved == save_config(file, AppCacheConfigDefault, io)
         IN  IF saved.res.ok
             THEN [res |-> Ok(AppCacheConfigDefault), file |-> saved.file]
             ELSE [res |-> saved.res, file |-> saved.file]

update_theme_cache_config(file, theme_config, io) ==
    LET loaded == load_config(file, io)
    IN  IF ~loaded.res.ok THEN loaded
        ELSE LET config == [loaded.res.val EXCEPT !.theme_cache = theme_config]
                 saved == save_config(loaded.file, config, io)
             IN  IF saved.res.ok
                 THEN [res |-> Ok(config), file |-> saved.file]
                 ELSE [res |-> saved.res, file |-> saved.file]

\* Mutant: the configuration is saved before it is validated.
update_cache_config_save_first(file, live, config, io) ==
    LET saved == save_config(file, config, io)
        valid == validate_config(config)
    IN  IF ~saved.res.ok THEN [res |-> saved.res, file |-> saved.file, live |-> live]
        ELSE IF ~valid.ok THEN [res |-> valid, file |-> saved.file, live |-> live]
        ELSE [res |-> Ok(config), file |-> saved.file,
              live |-> IF tcAvail THEN config.theme_cache ELSE live]

update_cache_config(file, live, config, io) ==
    LET valid == validate_config(config)
        saved == save_config(file, config, io)
    IN  IF ~valid.ok THEN [res |-> valid, file |-> file, live |-> live]
        ELSE IF ~saved.res.ok THEN [res |-> saved.res, file |-> saved.file, live |-> live]
        ELSE [res |-> Ok(config), file |-> saved.file,
              live |-> IF tcAvail THEN config.theme_cache ELSE live]

reset_cache_config(file, live, io) ==
    LET saved == save_config(file, AppCacheConfigDefault, io)
    IN  IF ~saved.res.ok THEN [res |-> saved.res, file |-> saved.file, live |-> live]
        ELSE [res |-> Ok(AppCacheConfigDefault), file |-> saved.file,
              live |-> IF tcAvail THEN AppCacheConfigDefault.theme_cache ELSE live]

InitConfigIdle ==
    /\ cfgFile = None
    /\ cfgRet = [op |-> "none", arg |-> <<>>, io |-> "ok", res |-> Err("")]
    /\ cfgPre = [file |-> None, live |-> <<>>]

\* no cache_config.toml yet; the theme cache runs on the default CacheConfig
InitConfig ==
    /\ InitConfigIdle
    /\ tcAvail \in BOOLEAN
    /\ snapshot = Snapshot(<<>>, 0)
    /\ tcConfig = AppCacheConfigDefault.theme_cache
    /\ tcOversize = "reject"
    /\ now = 0
    /\ ret = [cmd |-> "none", arg |-> {}, res |-> Err(""), via |-> "none"]
    /\ pre = Snapshot(<<>>, 0)
    /\ tbr = NoRefresh

ConfigCall(op, arg, io, out, live) ==
    /\ cfgRet' = [op |-> op, arg |-> arg, io |-> io, res |-> out.res]
    /\ cfgPre' = [file |-> cfgFile, live |-> tcConfig]
    /\ cfgFile' = out.file
    /\ tcConfig' = live
    /\ UNCHANGED <<tcAvail, snapshot, tcOversize, now, ret, pre, tbr>>
    /\ UNCHANGED <<titleVars, colorVars, fsVars, scanVars, rwVars, onceVars, raceVars>>

ValidateConfig(config) ==
    ConfigCall("validate_config", config, "ok",
               [res |-> validate_config(config), file |-> cfgFile], tcConfig)

get_cache_config(io) ==
    ConfigCall("get_cache_config", <<>>, io, load_config(cfgFile, io), tcConfig)

UpdateThemeCacheConfig(theme_config, io) ==
    ConfigCall("update_theme_cache_config", theme_config, io,
               update_theme_cache_config(cfgFile, theme_config, io), tcConfig)

UpdateCacheConfig(config, io) ==
    LET out == update_cache_config(cfgFile, tcConfig, config, io)
    IN  ConfigCall("update_cache_config", config, io, out, out.live)

ResetCacheConfig(io) ==
    LET out == reset_cache_config(cfgFile, tcConfig, io)
    IN  ConfigCall("reset_cache_config", <<>>, io, out, out.live)

NextConfig ==
    \/ \E config \in AppConfigs : ValidateConfig(config)
    \/ \E io \in IoOutcomes : get_cache_config(io)
    \/ \E tc \in SubmittedThemeConfigs, io \in IoOutcomes : UpdateThemeCacheConfig(tc, io)
    \/ \E config \in SubmittedConfigs, io \in IoOutcomes : UpdateCacheConfig(config, io)
    \/ \E io \in IoOutcomes : ResetCacheConfig(io)

(***************************************************************************)
(* SpecSanitize: CustomThemeService::sanitize_name (custom_themes.rs).     *)
(* The characters a name is made of stand for the classes the code tells   *)
(* apart: the space, letters in both cases, a digit, '-' and '_', other    *)
(* ASCII characters, and U+0130 (LATIN CAPITAL LETTER I WITH DOT ABOVE),   *)
(* a letter whose lowercase is two characters, 'i' and U+0307 (COMBINING   *)
(* DOT ABOVE).                                                             *)
(***************************************************************************)
NameAlphabet == {" ", "a", "B", "1", "-", "_", "@", ".", "/", "U+0130"}

\* char::is_alphanumeric
is_alphanumeric(c) == c \in {"a", "b", "c", "i", "s", "B", "1", "U+0130"}

\* char::to_lowercase: an iterator over one or more characters
to_lowercase(c) ==
    CASE c = "B"      -> <<"b">>
      [] c = "U+0130" -> <<"i", "U+0307">>
      [] OTHER        -> <<c>>

\* one turn of the loop over name.chars(): what is pushed to result
SanitizeChar(ch) ==
    IF ch = " " THEN <<"-">>
    ELSE IF is_alphanumeric(ch) \/ ch = "-" \/ ch = "_" THEN to_lowercase(ch)
    ELSE <<>>

RECURSIVE SanitizeLoop(_, _, _)
SanitizeLoop(chars, i, result) ==
    IF i > Len(chars) THEN result
    ELSE SanitizeLoop(chars, i + 1, result \o SanitizeChar(chars[i]))

sanitize_name(name) == SanitizeLoop(name, 1, <<>>)

InitSanitize ==
    /\ tIn \in SeqsUpTo(NameAlphabet, MaxNameLen)
    /\ tOut = <<>>
    /\ tAgain = <<>>
    /\ tPc = "name"

ApplySanitize ==
    /\ tPc = "name"
    /\ tOut' = sanitize_name(tIn)
    /\ tPc' = "sanitized"
    /\ UNCHANGED <<tIn, tAgain>>
    /\ UNCHANGED <<raceVars, onceVars, cfgVars, rwVars, cacheVars, colorVars, fsVars, scanVars>>

ApplySanitizeAgain ==
    /\ tPc = "sanitized"
    /\ tAgain' = sanitize_name(tOut)
    /\ tPc' = "resanitized"
    /\ UNCHANGED <<tIn, tOut>>
    /\ UNCHANGED <<raceVars, onceVars, cfgVars, rwVars, cacheVars, colorVars, fsVars, scanVars>>

NextSanitize ==
    \/ ApplySanitize
    \/ ApplySanitizeAgain

\* C23: what sanitize_name returns holds only lowercase alphanumerics, '-'
\* and '_', and sanitizing it again gives it back unchanged.
C23_SanitizeIdempotent ==
    /\ tPc \in {"sanitized", "resanitized"} =>
          \A i \in DOMAIN tOut :
              \/ tOut[i] \in {"-", "_"}
              \/ is_alphanumeric(tOut[i]) /\ to_lowercase(tOut[i]) = <<tOut[i]>>
    /\ tPc = "resanitized" => tAgain = tOut

\* the same for the names made of ASCII characters only
C23_SanitizeAscii ==
    (\A i \in DOMAIN tIn : tIn[i] # "U+0130") => C23_SanitizeIdempotent

(***************************************************************************)
(* SpecOnce: get_theme_loader called by commands running concurrently.     *)
(* THEME_LOADER is a std::sync::OnceLock; get_or_init returns the stored   *)
(* value if there is one, otherwise one caller runs the initializer while  *)
(* the others block until the value is stored.                             *)
(***************************************************************************)
OnceProcs == {1, 2, 3}

MaxCalls == 4

OnceIdle == [pc |-> "idle", got |-> 0]

InitOnceIdle ==
    /\ THEME_LOADER = None
    /\ olInit = 0
    /\ olMade = 0
    /\ olProc = [p \in OnceProcs |-> OnceIdle]
    /\ olCaches = <<>>
    /\ olCalls = 0

\* Mutant: a caller that finds the cell empty runs the initializer even
\* while another caller is running it.
MayInitializeUnguarded == TRUE

\* get_or_init: the initializer runs in one caller at a time
MayInitialize == olInit = 0

OnceFrame ==
    UNCHANGED <<titleVars, colorVars, fsVars, scanVars, cacheVars, rwVars, cfgVars, raceVars>>

\* a command reaches get_theme_loader()
OnceCall(p) ==
    /\ olProc[p].pc = "idle"
    /\ olCalls < MaxCalls
    /\ olCalls' = olCalls + 1
    /\ olProc' = [olProc EXCEPT ![p] = [pc |-> "get_or_init", got |-> 0]]
    /\ UNCHANGED <<THEME_LOADER, olInit, olMade, olCaches>>
    /\ OnceFrame

\* get_or_init finds the cell filled
OnceGet(p) ==
    /\ olProc[p].pc = "get_or_init"
    /\ IsSome(THEME_LOADER)
    /\ olProc' = [olProc EXCEPT ![p] = [pc |-> "has", got |-> Unwrap(THEME_LOADER)]]
    /\ UNCHANGED <<THEME_LOADER, olInit, olMade, olCaches, olCalls>>
    /\ OnceFrame

\* get_or_init finds the cell empty and starts OptimizedThemeLoader::new
OnceBegin(p) ==
    /\ olProc[p].pc = "get_or_init"
    /\ THEME_LOADER = None
    /\ MayInitialize
    /\ olInit' = p
    /\ olMade' = olMade + 1
    /\ olCaches' = Append(olCaches, {})
    /\ olProc' = [olProc EXCEPT ![p] = [pc |-> "new", got |-> olMade + 1]]
    /\ UNCHANGED <<THEME_LOADER, olCalls>>
    /\ OnceFrame

\* the initializer returns: the loader is stored and handed to the caller
OnceStore(p) ==
    /\ olProc[p].pc = "new"
    /\ THEME_LOADER' = Some(olProc[p].got)
    /\ olInit' = 0
    /\ olProc' = [olProc EXCEPT ![p].pc = "has"]
    /\ UNCHANGED <<olMade, olCaches, olCalls>>
    /\ OnceFrame

\* the command uses the loader it got: an entry is set in its ColorCache
OnceUse(p) ==
    /\ olProc[p].pc = "has"
    /\ olCaches' = [olCaches EXCEPT ![olProc[p].got] = @ \cup {p}]
    /\ olProc' = [olProc EXCEPT ![p].pc = "used"]
    /\ UNCHANGED <<THEME_LOADER, olInit, olMade, olCalls>>
    /\ OnceFrame

\* the command returns
OnceReturn(p) ==
    /\ olProc[p].pc = "used"
    /\ olProc' = [olProc EXCEPT ![p].pc = "idle"]
    /\ UNCHANGED <<THEME_LOADER, olInit, olMade, olCaches, olCalls>>
    /\ OnceFrame

NextOnce ==
    \/ \E p \in OnceProcs : OnceCall(p)
    \/ \E p \in OnceProcs : OnceGet(p)
    \/ \E p \in OnceProcs : OnceBegin(p)
    \/ \E p \in OnceProcs : OnceStore(p)
    \/ \E p \in OnceProcs : OnceUse(p)
    \/ \E p \in OnceProcs : OnceReturn(p)

\* C22: the loader is constructed at most once, every caller that has a
\* loader has the same one, and an entry set by any caller is in the
\* ColorCache every other caller is given.
C22_OneLoader ==
    /\ olMade <= 1
    /\ \A p, q \in OnceProcs :
          (olProc[p].got # 0 /\ olProc[q].got # 0) => olProc[p].got = olProc[q].got
    /\ \A p \in OnceProcs :
          olProc[p].pc \in {"used", "idle"} /\ olProc[p].got # 0
              => \A q \in OnceProcs : olProc[q].got # 0 => p \in olCaches[olProc[q].got]

\* two callers raced on the first access, one of them constructed the
\* loader and the other blocked; both have used the one ColorCache
C22_Witness ==
    /\ olMade = 1
    /\ olProc[1].pc = "used"
    /\ olProc[2].pc = "used"
    /\ olProc[3].pc = "get_or_init"
    /\ olCalls = 3
    /\ olCaches[1] = {1, 2}

(***************************************************************************)
(* The custom theme commands of custom_themes.rs (SpecCustom): a theme is  *)
(* updated or deleted through CustomThemeService, and after a success the  *)
(* command invalidates the theme in the ThemeCache and triggers a          *)
(* background refresh. They run beside get_sys_themes and                  *)
(* refresh_theme_cache, on one filesystem and one ColorCache.              *)
(***************************************************************************)
\* the theme names the commands are called with: the names of the two
\* directories as a user types them, a name no directory has, and names
\* that sanitize_name empties
CustomNames == {<<"a">>, <<"B", "-", "c">>, <<"1">>, <<>>, <<"@">>}

\* the themes the commands are run on: a custom theme and a plain one
CustomEntryKinds ==
    {Entry("dir", "ok", "file", FALSE, "p1", "p2", "none"),
     Entry("dir", "ok", "absent", FALSE, "p1", "p2", "none")}

InitCustom ==
    /\ tcAvail \in BOOLEAN
    /\ snapshot = Snapshot(<<>>, 0)
    /\ tcConfig \in CacheConfigs
    /\ tcOversize \in {"reject", "truncate"}
    /\ now = 0
    /\ ret = [cmd |-> "none", arg |-> {}, res |-> Err(""), via |-> "none"]
    /\ pre = Snapshot(<<>>, 0)
    /\ tbr = NoRefresh
    /\ fsRoot = "ok"
    /\ \E S \in SUBSET LoaderDirNames : fsDirs \in [S -> CustomEntryKinds]
    /\ fsEdits = 0

\* CustomThemeService::new: create_dir_all of the themes root
CustomThemeServiceNew(root, dirs) ==
    IF root = "nohome" THEN [res |-> Err("Failed to get home directory"), root |-> root, dirs |-> dirs]
    ELSE IF root = "missing" THEN [res |-> Ok(<<>>), root |-> "ok", dirs |-> EmptyMap]
    ELSE [res |-> Ok(<<>>), root |-> root, dirs |-> dirs]

\* themes_dir.join(&sanitized_name).exists(): joining the empty name gives
\* the themes root itself
ThemeDirExists(root, dirs, sanitized_name) ==
    IF sanitized_name = <<>> THEN root \in {"ok", "unreadable"}
    ELSE sanitized_name \in DOMAIN dirs

\* load_theme_metadata: custom_theme.json is read and parsed
load_theme_metadata(dirs, sanitized_name) ==
    /\ sanitized_name \in DOMAIN dirs
    /\ dirs[sanitized_name].entry = "dir"
    /\ dirs[sanitized_name].custom = "file"
    /\ dirs[sanitized_name].json \notin {"unreadable", "malformed"}

\* update_theme, update_theme_advanced: the theme data are merged into the
\* metadata, the configuration files are generated again and
\* custom_theme.json is rewritten
update_theme_advanced(root, dirs, name, theme_data) ==
    LET sanitized_name == sanitize_name(name)
    IN  IF ~ThemeDirExists(root, dirs, sanitized_name)
        THEN [res |-> Err("Theme not found"), root |-> root, dirs |-> dirs]
        ELSE IF ~load_theme_metadata(dirs, sanitized_name)
        THEN [res |-> Err("Failed to read theme metadata"), root |-> root, dirs |-> dirs]
        ELSE [res |-> Ok(<<>>), root |-> root,
              dirs |-> [dirs EXCEPT ![sanitized_name].json = theme_data,
                                    ![sanitized_name].toml = theme_data]]

\* delete_theme: remove_dir_all of themes_dir.join(&sanitized_name)
delete_theme(root, dirs, name) ==
    LET sanitized_name == sanitize_name(name)
    IN  IF ~ThemeDirExists(root, dirs, sanitized_name)
        THEN [res |-> Err("Theme not found"), root |-> root, dirs |-> dirs]
        ELSE IF sanitized_name = <<>>
        THEN [res |-> Ok(<<>>), root |-> "missing", dirs |-> EmptyMap]
        ELSE [res |-> Ok(<<>>), root |-> root,
              dirs |-> [d \in DOMAIN dirs \ {sanitized_name} |-> dirs[d]]]

\* the end of create_, update_ and delete_custom_theme: after a success of
\* the service call, cache.invalidate_theme(&name) and
\* cache.trigger_background_refresh(), whose result is dropped; the
\* ColorCache is passed on to the scan as it is
CustomCommand(cmd, name, svc, edits) ==
    /\ ret' = [cmd |-> cmd, arg |-> {name}, res |-> svc.res, via |-> "none"]
    /\ pre' = snapshot
    /\ fsRoot' = svc.root
    /\ fsDirs' = svc.dirs
    /\ fsEdits' = edits
    /\ IF svc.res.ok /\ tcAvail
       THEN \E order \in Orders(ThemeDirsOf(svc.dirs)) :
            \E before \in {invalidate_theme(snapshot, name)} :
            \E r \in {trigger_background_refresh(before, colorCache, order,
                                                 tcConfig, tcOversize, now, svc.root, svc.dirs)} :
                /\ snapshot' = r.snap
                /\ colorCache' = r.cc
                /\ tbr' = [called |-> TRUE, loaded |-> r.loaded, before |-> before,
                           after |-> r.snap, res |-> r.res]
       ELSE /\ tbr' = NoRefresh
            /\ UNCHANGED <<snapshot, colorCache>>
    /\ UNCHANGED <<tcAvail, tcConfig, tcOversize, now>>
    /\ UNCHANGED <<titleVars, scanVars, ccRet, ccLast>>
    /\ UNCHANGED <<raceVars, onceVars, cfgVars, rwVars>>

\* update_custom_theme, update_custom_theme_advanced
CmdUpdateCustomTheme(name, theme_data) ==
    /\ fsEdits < MaxEdits
    /\ \E made \in {CustomThemeServiceNew(fsRoot, fsDirs)} :
          IF ~made.res.ok THEN CustomCommand("update_custom_theme", name, made, fsEdits)
          ELSE \E svc \in {update_theme_advanced(made.root, made.dirs, name, theme_data)} :
                   CustomCommand("update_custom_theme", name, svc,
                                 IF svc.res.ok THEN fsEdits + 1 ELSE fsEdits)

\* delete_custom_theme
CmdDeleteCustomTheme(name) ==
    \E made \in {CustomThemeServiceNew(fsRoot, fsDirs)} :
        IF ~made.res.ok THEN CustomCommand("delete_custom_theme", name, made, fsEdits)
        ELSE CustomCommand("delete_custom_theme", name,
                           delete_theme(made.root, made.dirs, name), fsEdits)

NextCustom ==
    \/ \E order \in Orders(ThemeDirsOf(fsDirs)) : CmdGetSysThemes(order)
    \/ \E order \in Orders(ThemeDirsOf(fsDirs)) : CmdRefreshThemeCache(order)
    \/ \E name \in CustomNames, theme_data \in Palettes : CmdUpdateCustomTheme(name, theme_data)
    \/ \E name \in CustomNames : CmdDeleteCustomTheme(name)
    \/ Tick
    \/ RootChmod

(***************************************************************************)
(* Commands run by concurrent callers. A tauri command is an async fn: it  *)
(* can be suspended at each .await, and other commands run meanwhile. A    *)
(* caller is at one of the awaits of its command, with the locals it has   *)
(* set so far.                                                             *)
(***************************************************************************)
RaceProcs == {1, 2}

RaceIdle == [pc |-> "idle", cmd |-> "none", arg |-> <<>>, local |-> <<>>]

InitRaceIdle ==
    /\ rcProc = [p \in RaceProcs |-> RaceIdle]
    /\ rcCalls = 0
    /\ rcRead = None

(***************************************************************************)
(* SpecConfigRace: update_cache_config and reset_cache_config              *)
(* (cache_config.rs). Each validates, writes cache_config.toml with        *)
(* save_config, awaits get_cache_manager() and then awaits                 *)
(* theme_cache.update_config(..).                                          *)
(***************************************************************************)
\* the configurations the racing callers submit: valid ones that differ in
\* their theme_cache section
RaceConfigs ==
    {config \in SubmittedConfigs : validate_config(config).ok /\ config.cache_directory = None}

InitConfigRace ==
    /\ cfgFile = None
    /\ cfgRet = [op |-> "none", arg |-> <<>>, io |-> "ok", res |-> Err("")]
    /\ cfgPre = [file |-> None, live |-> <<>>]
    /\ tcAvail = TRUE
    /\ snapshot = Snapshot(<<>>, 0)
    /\ tcConfig = AppCacheConfigDefault.theme_cache
    /\ tcOversize = "reject"
    /\ now = 0
    /\ ret = [cmd |-> "none", arg |-> {}, res |-> Err(""), via |-> "none"]
    /\ pre = Snapshot(<<>>, 0)
    /\ tbr = NoRefresh

ConfigRaceFrame ==
    /\ UNCHANGED <<tcAvail, snapshot, tcOversize, now, ret, pre, tbr, cfgRet, cfgPre>>
    /\ UNCHANGED <<titleVars, colorVars, fsVars, scanVars, rwVars, onceVars>>

\* save_config, up to the await of get_cache_manager()
SaveStep(p, cmd, config) ==
    /\ \E saved \in {save_config(cfgFile, config, "ok")} :
          /\ saved.res.ok
          /\ cfgFile' = saved.file
    /\ rcProc' = [rcProc EXCEPT ![p] = [pc |-> "saved", cmd |-> cmd, arg |-> config,
                                        local |-> <<>>]]
    /\ rcCalls' = rcCalls + 1
    /\ UNCHANGED <<tcConfig, rcRead>>
    /\ ConfigRaceFrame

UpdateCacheConfigSave(p, config) ==
    /\ rcProc[p].pc = "idle"
    /\ rcCalls < MaxCalls
    /\ validate_config(config).ok
    /\ SaveStep(p, "update_cache_config", config)

ResetCacheConfigSave(p) ==
    /\ rcProc[p].pc = "idle"
    /\ rcCalls < MaxCalls
    /\ SaveStep(p, "reset_cache_config", AppCacheConfigDefault)

\* theme_cache.update_config(config.theme_cache).await and the return of
\* Ok(config)
UpdateConfigStep(p) ==
    /\ rcProc[p].pc = "saved"
    /\ tcConfig' = rcProc[p].arg.theme_cache
    /\ rcProc' = [rcProc EXCEPT ![p] = RaceIdle]
    /\ UNCHANGED <<cfgFile, rcCalls, rcRead>>
    /\ ConfigRaceFrame

NextConfigRace ==
    \/ \E p \in RaceProcs, config \in RaceConfigs : UpdateCacheConfigSave(p, config)
    \/ \E p \in RaceProcs : ResetCacheConfigSave(p)
    \/ \E p \in RaceProcs : UpdateConfigStep(p)

(***************************************************************************)
(* SpecRace: the cache commands of get_sys_themes.rs run by concurrent     *)
(* callers. Each await on the ThemeCache or on the ColorCache takes and    *)
(* releases the lock on its own, so a command is a sequence of steps and   *)
(* the steps of other callers, and edits of the theme files, fall between  *)
(* them.                                                                   *)
(***************************************************************************)
\* the themes the racing commands are run on: one that takes its colors from
\* alacritty.toml and a custom one that takes them from custom_theme.json
RaceEntryKinds ==
    {Entry("dir", "ok", "absent", FALSE, "p1", "p2", "none"),
     Entry("dir", "ok", "file", FALSE, "p1", "p2", "none")}

InitThemeRace ==
    /\ tcAvail = TRUE
    /\ snapshot = Snapshot(<<>>, 0)
    /\ tcConfig = [cache_duration_minutes |-> 2, max_cache_size |-> 2]
    /\ tcOversize = "reject"
    /\ now = 0
    /\ ret = [cmd |-> "none", arg |-> {}, res |-> Err(""), via |-> "none"]
    /\ pre = Snapshot(<<>>, 0)
    /\ tbr = NoRefresh
    /\ fsRoot = "ok"
    /\ \E S \in SUBSET LoaderDirNames \ {{}} : fsDirs \in [S -> RaceEntryKinds]
    /\ fsEdits = 0

\* the locals of a command: the themes it holds, the color entries its scan
\* will set, the theme_cache_size it has computed, and how many edits of the
\* theme files there were when it cleared the ColorCache
RaceLocal == [themes |-> <<>>, misses |-> EmptyMap, size |-> 0, edits |-> 0]

RaceFrame ==
    /\ UNCHANGED <<tcAvail, tcConfig, tcOversize, now, ret, pre, tbr, ccRet, ccLast>>
    /\ UNCHANGED <<titleVars, fsVars, scanVars, rwVars, cfgVars, onceVars>>

RaceCall(p, cmd, pc) ==
    /\ rcProc' = [rcProc EXCEPT ![p] = [pc |-> pc, cmd |-> cmd, arg |-> <<>>,
                                        local |-> RaceLocal]]
    /\ rcCalls' = rcCalls + 1
    /\ UNCHANGED <<snapshot, colorCache, rcRead>>
    /\ RaceFrame

\* a step that only moves the caller on
RaceGoto(p, pc) ==
    /\ rcProc' = [rcProc EXCEPT ![p].pc = pc]
    /\ UNCHANGED <<snapshot, colorCache, rcCalls, rcRead>>
    /\ RaceFrame

\* get_sys_themes has its list: as a command it returns it, inside
\* refresh_theme_cache the list goes on to cache_themes
GotThemes(p, themes) ==
    IF rcProc[p].cmd = "get_sys_themes"
    THEN rcProc' = [rcProc EXCEPT ![p] = RaceIdle]
    ELSE rcProc' = [rcProc EXCEPT ![p].pc = "recache", ![p].local.themes = themes]

CallGetSysThemes(p) ==
    /\ rcProc[p].pc = "idle"
    /\ rcCalls < MaxCalls
    /\ RaceCall(p, "get_sys_themes", "valid")

\* cache.is_cache_valid().await
IsCacheValidStep(p) ==
    /\ rcProc[p].pc = "valid"
    /\ RaceGoto(p, IF is_cache_valid(snapshot, tcConfig, now) THEN "empty" ELSE "scan")

\* !cache.is_empty().await
IsEmptyStep(p) ==
    /\ rcProc[p].pc = "empty"
    /\ RaceGoto(p, IF ~is_empty(snapshot) THEN "get" ELSE "scan")

\* cache.get_themes().await and return Ok(cached_themes)
GetThemesStep(p) ==
    /\ rcProc[p].pc = "get"
    /\ IF get_themes(snapshot).ok
       THEN GotThemes(p, get_themes(snapshot).val)
       ELSE rcProc' = [rcProc EXCEPT ![p].pc = "scan"]
    /\ UNCHANGED <<snapshot, colorCache, rcCalls, rcRead>>
    /\ RaceFrame

\* get_sys_themes_direct, load_themes_parallel: the scan reads the theme
\* files and looks its themes up in the ColorCache
ScanReadStep(p, order) ==
    /\ rcProc[p].pc = "scan"
    /\ LET Read(l) ==
               /\ l.res.ok
               /\ rcProc' = [rcProc EXCEPT
                      ![p].pc = "set",
                      ![p].local.themes = l.res.val,
                      ![p].local.misses = [d \in DOMAIN l.cache \ DOMAIN colorCache |->
                                              l.cache[d]]]
               /\ rcRead' = Some(l.res.val)
       IN  Read(load_themes_parallel(fsRoot, fsDirs, order, colorCache))
    /\ UNCHANGED <<snapshot, colorCache, rcCalls>>
    /\ RaceFrame

\* the scan's units store what they have extracted: cache.set(dir_name, colors)
ColorSetStep(p) ==
    /\ rcProc[p].pc = "set"
    /\ colorCache' = [d \in DOMAIN colorCache \cup DOMAIN rcProc[p].local.misses |->
                          IF d \in DOMAIN rcProc[p].local.misses
                          THEN rcProc[p].local.misses[d] ELSE colorCache[d]]
    /\ rcProc' = [rcProc EXCEPT ![p].pc = "store"]
    /\ UNCHANGED <<snapshot, rcCalls, rcRead>>
    /\ RaceFrame

\* get_sys_themes_direct: cache.cache_themes(themes.clone(), false).await and
\* Ok(themes)
CacheThemesStep(p) ==
    /\ rcProc[p].pc = "store"
    /\ snapshot' = cache_themes(snapshot, tcConfig, tcOversize,
                                rcProc[p].local.themes, now).snap
    /\ GotThemes(p, rcProc[p].local.themes)
    /\ UNCHANGED <<colorCache, rcCalls, rcRead>>
    /\ RaceFrame

CallRefreshThemeCache(p) ==
    /\ rcProc[p].pc = "idle"
    /\ rcCalls < MaxCalls
    /\ RaceCall(p, "refresh_theme_cache", "clear")

\* theme_loader.clear_cache().await
RefreshClearStep(p) ==
    /\ rcProc[p].pc = "clear"
    /\ colorCache' = ColorCacheClear(colorCache)
    /\ rcProc' = [rcProc EXCEPT ![p].pc = "invalidate", ![p].local.edits = fsEdits]
    /\ UNCHANGED <<snapshot, rcCalls, rcRead>>
    /\ RaceFrame

\* cache.invalidate().await, then get_sys_themes().await
RefreshInvalidateStep(p) ==
    /\ rcProc[p].pc = "invalidate"
    /\ snapshot' = invalidate(snapshot)
    /\ rcProc' = [rcProc EXCEPT ![p].pc = "valid"]
    /\ UNCHANGED <<colorCache, rcCalls, rcRead>>
    /\ RaceFrame

\* cache.cache_themes(themes.clone(), false).await and Ok(themes)
RefreshRecacheStep(p) ==
    /\ rcProc[p].pc = "recache"
    /\ snapshot' = cache_themes(snapshot, tcConfig, tcOversize,
                                rcProc[p].local.themes, now).snap
    /\ rcProc' = [rcProc EXCEPT ![p] = RaceIdle]
    /\ UNCHANGED <<colorCache, rcCalls, rcRead>>
    /\ RaceFrame

CallGetCacheStats(p) ==
    /\ rcProc[p].pc = "idle"
    /\ rcCalls < MaxCalls
    /\ RaceCall(p, "get_cache_stats", "stat_empty")

\* let theme_cache_size = if cache.is_empty().await { 0 } else { 1 }
StatsEmptyStep(p) ==
    /\ rcProc[p].pc = "stat_empty"
    /\ rcProc' = [rcProc EXCEPT ![p].pc = "stat_valid",
                                ![p].local.size = IF is_empty(snapshot) THEN 0 ELSE 1]
    /\ UNCHANGED <<snapshot, colorCache, rcCalls, rcRead>>
    /\ RaceFrame

\* let is_valid = cache.is_cache_valid().await, and the stats are returned
StatsValidStep(p) ==
    /\ rcProc[p].pc = "stat_valid"
    /\ rcProc' = [rcProc EXCEPT ![p] = RaceIdle]
    /\ UNCHANGED <<snapshot, colorCache, rcCalls, rcRead>>
    /\ RaceFrame

\* invalidate_theme_cache(theme_dir): one await, theme_cache.invalidate_theme
RaceInvalidateThemeCache(p, theme_dir) ==
    /\ rcProc[p].pc = "idle"
    /\ rcCalls < MaxCalls
    /\ snapshot' = invalidate_theme_cache(snapshot, theme_dir)
    /\ rcCalls' = rcCalls + 1
    /\ UNCHANGED <<colorCache, rcProc, rcRead>>
    /\ RaceFrame

NextRace ==
    \/ \E p \in RaceProcs : CallGetSysThemes(p)
    \/ \E p \in RaceProcs : IsCacheValidStep(p)
    \/ \E p \in RaceProcs : IsEmptyStep(p)
    \/ \E p \in RaceProcs : GetThemesStep(p)
    \/ \E p \in RaceProcs, order \in Orders(ThemeDirsOf(fsDirs)) : ScanReadStep(p, order)
    \/ \E p \in RaceProcs : ColorSetStep(p)
    \/ \E p \in RaceProcs : CacheThemesStep(p)
    \/ \E p \in RaceProcs : CallRefreshThemeCache(p)
    \/ \E p \in RaceProcs : RefreshClearStep(p)
    \/ \E p \in RaceProcs : RefreshInvalidateStep(p)
    \/ \E p \in RaceProcs : RefreshRecacheStep(p)
    \/ \E p \in RaceProcs : CallGetCacheStats(p)
    \/ \E p \in RaceProcs : StatsEmptyStep(p)
    \/ \E p \in RaceProcs : StatsValidStep(p)
    \/ \E p \in RaceProcs, d \in LoaderDirNames : RaceInvalidateThemeCache(p, d)
    \/ \E d \in LoaderDirNames : FsEdit(d)

(***************************************************************************)
(* Claims about the theme cache and the commands (Spec)                    *)
(***************************************************************************)
\* C2: when the loading path of trigger_background_refresh fails, the call
\* returns an error and the snapshot, theme list and refresh time, is what it
\* was when the call was made.
C2_FailedRefreshKeepsSnapshot ==
    (tbr.called /\ ~tbr.loaded) =>
        /\ ~tbr.res.ok
        /\ tbr.after = tbr.before
        /\ snapshot = tbr.before

\* a refresh failed on a snapshot that held themes
C2_Witness ==
    /\ tbr.called
    /\ ~tbr.loaded
    /\ tbr.before.themes # <<>>
    /\ ret.cmd = "trigger_background_refresh"

\* C3 (as stated): when the scan of refresh_theme_cache or of
\* invalidate_and_refresh_cache fails, the snapshot cached before the command
\* is intact, so get_themes still returns the previous themes.
C3_FailedReloadKeepsSnapshot ==
    (/\ ret.cmd \in {"refresh_theme_cache", "invalidate_and_refresh_cache"}
     /\ ~ret.res.ok) =>
        get_themes(snapshot) = get_themes(pre)

\* C4: a non-empty list that fits max_cache_size, once cached by
\* cache_themes(T, false), is what get_themes returns, and the cache is valid.
FreshlyCached ==
    /\ tcAvail
    /\ ret.cmd \in {"get_sys_themes", "refresh_theme_cache",
                    "invalidate_and_refresh_cache", "trigger_background_refresh"}
    /\ ret.via \in {"scan", "refresh"}
    /\ ret.res.ok
    /\ ret.res.val # <<>>
    /\ Len(ret.res.val) <= tcConfig.max_cache_size

C4_CacheRoundTrip ==
    FreshlyCached =>
        /\ get_themes(snapshot) = Ok(ret.res.val)
        /\ is_cache_valid(snapshot, tcConfig, now)

\* a scan was cached over an older snapshot, after its time had run out
C4_Witness ==
    /\ FreshlyCached
    /\ ret.cmd = "get_sys_themes"
    /\ pre.themes # <<>>
    /\ ~is_cache_valid(pre, tcConfig, now)
    /\ Len(snapshot.themes) = 2

\* C5: after invalidate_theme(id) the snapshot holds no theme with that id
\* and every other theme it held, unchanged; the cache goes from valid to
\* invalid only if the removal emptied the snapshot.
C5_InvalidateOneTheme ==
    (ret.cmd = "invalidate_theme_cache" /\ tcAvail) =>
        /\ \A th \in ThemesOf(snapshot) : th.dir \notin ret.arg
        /\ \A th \in ThemesOf(pre) : th.dir \notin ret.arg => th \in ThemesOf(snapshot)
        /\ ThemesOf(snapshot) \subseteq ThemesOf(pre)
        /\ Len(snapshot.themes) = Cardinality(ThemesOf(snapshot))
        /\ (is_cache_valid(pre, tcConfig, now) /\ ~is_cache_valid(snapshot, tcConfig, now))
               => is_empty(snapshot)

\* one of two cached themes was invalidated and the cache is still valid
C5_Witness ==
    /\ ret.cmd = "invalidate_theme_cache"
    /\ tcAvail
    /\ Len(pre.themes) = 2
    /\ Len(snapshot.themes) = 1
    /\ is_cache_valid(snapshot, tcConfig, now)

\* C11: with an existing themes root that holds no theme directory,
\* get_sys_themes returns the empty list without error and leaves the cache
\* empty and not valid, so that each such call, the later ones too, is
\* answered by a scan and not from the cache.
EmptyRoot == fsRoot = "ok" /\ ThemeDirsOf(fsDirs) = {}

C11_EmptyRootNeverValid ==
    (ret.cmd = "get_sys_themes" /\ EmptyRoot) =>
        /\ ret.res = Ok(<<>>)
        /\ ret.via = "scan"
        /\ is_empty(snapshot)
        /\ ~is_cache_valid(snapshot, tcConfig, now)

\* a get_sys_themes on the empty root at time 2, after the empty scan had
\* already been cached at time 1
C11_Witness ==
    /\ ret.cmd = "get_sys_themes"
    /\ EmptyRoot
    /\ tcAvail
    /\ now = 2
    /\ pre.last_refreshed_at = 1
    /\ snapshot.last_refreshed_at = 2

(***************************************************************************)
(* Claims about the loader (SpecLoader)                                    *)
(***************************************************************************)
Range(seq) == {seq[i] : i \in DOMAIN seq}

\* the directories of the root whose unit neither returns an error nor panics
SucceedingDirs == {d \in ThemeDirsOf(fsDirs) : fsDirs[d].unit = "ok"}

FailingDirs == {d \in ThemeDirsOf(fsDirs) : fsDirs[d].unit # "ok"}

\* C1: whatever units fail, load_themes_parallel returns Ok with exactly one
\* theme for each unit that succeeded and none for a unit that failed; it
\* returns an error only when the themes root is missing (which includes a
\* home directory that cannot be resolved) or cannot be enumerated.
C1_PartialFailureTolerated ==
    scPc = "done" =>
        /\ scResult.ok <=> fsRoot = "ok"
        /\ ~scResult.ok => fsRoot \in {"nohome", "missing", "unreadable"}
        /\ scResult.ok =>
              /\ Len(scResult.val) = Cardinality(SucceedingDirs)
              /\ {t.dir : t \in Range(scResult.val)} = SucceedingDirs
              /\ Len(scErrors) = Cardinality(FailingDirs)

C1_Witness ==
    /\ scPc = "done"
    /\ scResult.ok
    /\ Len(scResult.val) = 1
    /\ \E d \in FailingDirs : fsDirs[d].unit = "panic"

\* what one step of extract_theme_colors_cached for unit i must do
C8_UnitStep(i) ==
    LET u == scUnits[i]
        v == scUnits'[i]
        d == u.dir
    IN  \* a hit: the stored value, the cache as it was, and the colors the
        \* call before returned
        /\ (u.pc = "spawned" /\ v.pc = "image") =>
              /\ ColorCacheGet(colorCache, d) = Some(v.colors)
              /\ colorCache' = colorCache
              /\ ColorCacheSize(colorCache') = ColorCacheSize(colorCache)
              /\ d \in DOMAIN ccReturned /\ v.colors = ccReturned[d]
        \* a miss: the colors are extracted
        /\ (u.pc = "spawned" /\ v.pc = "set") =>
              /\ ColorCacheGet(colorCache, d) = None
              /\ v.colors = extract_theme_colors_direct(fsDirs[d], IsCustom(fsDirs[d]))
        \* and stored under the directory name, None included, before the return
        /\ (u.pc = "set" /\ v.pc = "image") =>
              /\ ColorCacheGet(colorCache', d) = Some(u.colors)
              /\ v.colors = u.colors

\* C8: on a miss extract_theme_colors_cached extracts the colors and stores
\* them (None too) under the directory name before it returns them; on a hit
\* it returns the stored value without extracting again and leaves the cache
\* and its size as they were, so that a second call for a directory returns
\* what the first returned.
C8_CachedExtraction ==
    [][(scPc = "joining" /\ scCount' = scCount) =>
            \A i \in DOMAIN scUnits : C8_UnitStep(i)]_vars

\* a second scan answered from the cache with None although the files, which
\* were rewritten in between, now hold a palette
C8_Witness ==
    /\ scCount = 2
    /\ \E i \in DOMAIN scUnits :
          /\ scUnits[i].hit
          /\ scUnits[i].colors = None
          /\ ColorCacheGet(colorCache, scUnits[i].dir) = Some(None)
          /\ extract_theme_colors_direct(fsDirs[scUnits[i].dir],
                                         scUnits[i].is_custom) # None

ClassifiedAsTheFilesSay(t) ==
    LET e == fsDirs[t.dir]
    IN  /\ t.is_custom <=> e.custom = "file"
        /\ t.is_system <=> (e.symlink /\ e.custom # "file")
        /\ ~(t.is_custom /\ t.is_system)
        /\ (e.symlink /\ e.custom = "file") => (t.is_custom /\ ~t.is_system)

\* C9: every Theme and every ThemeMetadata the loader produces has is_custom
\* iff the directory holds a custom_theme.json file and is_system iff the
\* directory is a symbolic link and not custom; never both, and a custom
\* symbolic link is custom.
C9_Classification ==
    /\ \A t \in Range(scThemes) : ClassifiedAsTheFilesSay(t)
    /\ scResult.ok => \A t \in Range(scResult.val) : ClassifiedAsTheFilesSay(t)
    /\ mdResult.ok => \A m \in Range(mdResult.val) : ClassifiedAsTheFilesSay(m)

C9_Witness ==
    /\ scResult.ok
    /\ \E t \in Range(scResult.val) :
          fsDirs[t.dir].symlink /\ fsDirs[t.dir].custom = "file" /\ t.is_custom
    /\ \E t \in Range(scResult.val) :
          fsDirs[t.dir].symlink /\ fsDirs[t.dir].custom = "dir" /\ t.is_system
    /\ mdResult.ok
    /\ \E m \in Range(mdResult.val) :
          fsDirs[m.dir].symlink /\ fsDirs[m.dir].custom = "file" /\ m.is_custom

\* C12: with the themes root missing, load_themes_parallel and
\* load_theme_metadata_only return an error, no unit is spawned, and the
\* color cache and the theme cache snapshot are as they were.
C12_ScanStarts == \E order \in Orders(ThemeDirsOf(fsDirs)) : ScanStart(order)

C12_MetadataLoads == \E order \in Orders(ThemeDirsOf(fsDirs)) : load_theme_metadata_only(order)

C12_MissingRootFailsFast ==
    [][fsRoot = "missing" =>
          /\ C12_ScanStarts =>
                /\ ~scResult'.ok
                /\ scPc' = "done"
                /\ scUnits' = <<>>
                /\ colorCache' = colorCache
                /\ snapshot' = snapshot
          /\ C12_MetadataLoads =>
                /\ ~mdResult'.ok
                /\ mdUnits' = <<>>
                /\ colorCache' = colorCache
                /\ snapshot' = snapshot]_vars

\* both calls failed on a root removed after a scan had filled the color cache
C12_Witness ==
    /\ fsRoot = "missing"
    /\ scPc = "done"
    /\ scResult = Err(RootError("missing"))
    /\ scUnits = <<>>
    /\ mdResult = Err(RootError("missing"))
    /\ DOMAIN colorCache # {}

\* C13: get_sys_themes returns the snapshot without a scan when the cache is
\* valid and holds themes; otherwise it scans, and when the scan succeeds it
\* hands the scanned list to cache_themes(.., false) and returns that list,
\* whether or not cache_themes accepted it.
C13_DirsOf(themes) == [i \in DOMAIN themes |-> themes[i].dir]

C13_CacheFirst ==
    ret.cmd = "get_sys_themes" =>
        IF tcAvail /\ is_cache_valid(pre, tcConfig, now) /\ ~is_empty(pre)
        THEN /\ ret.via = "cache"
             /\ ret.res = Ok(pre.themes)
             /\ snapshot = pre
        ELSE /\ ret.via = "scan"
             /\ ret.res.ok = (fsRoot = "ok")
             /\ ret.res.ok => C13_DirsOf(ret.res.val) \in Orders(SucceedingDirs)
             /\ (ret.res.ok /\ tcAvail) =>
                    snapshot = cache_themes(pre, tcConfig, tcOversize, ret.res.val, now).snap
             /\ (~ret.res.ok \/ ~tcAvail) => snapshot = pre

\* a scan of two themes was returned although cache_themes, limited to one
\* theme, rejected the list
C13_Witness ==
    /\ ret.cmd = "get_sys_themes"
    /\ ret.via = "scan"
    /\ tcAvail
    /\ ret.res.ok
    /\ Len(ret.res.val) = 2
    /\ ~cache_themes(pre, tcConfig, tcOversize, ret.res.val, now).res.ok
    /\ snapshot = pre

\* C14: a snapshot whose time has run out is not an error: is_cache_valid
\* is false, get_themes still succeeds and returns the list it returned
\* before; is_cache_valid is true exactly when the snapshot holds themes and
\* now - last_refreshed_at < cache_duration_minutes.
C14_Age == now - snapshot.last_refreshed_at

C14_StaleIsState ==
    /\ is_cache_valid(snapshot, tcConfig, now) <=>
           (snapshot.themes # <<>> /\ C14_Age < tcConfig.cache_duration_minutes)
    /\ ret.cmd = "tick" =>
           /\ get_themes(snapshot).ok
           /\ get_themes(snapshot) = get_themes(pre)
           /\ (pre.themes # <<>> /\ C14_Age >= tcConfig.cache_duration_minutes) =>
                  ~is_cache_valid(snapshot, tcConfig, now)

\* the clock has just taken a snapshot of two themes past its time
C14_Witness ==
    /\ ret.cmd = "tick"
    /\ Len(snapshot.themes) = 2
    /\ is_cache_valid(snapshot, tcConfig, now - 1)
    /\ ~is_cache_valid(snapshot, tcConfig, now)
    /\ get_themes(snapshot) = Ok(pre.themes)

\* C15: after invalidate() the cache is empty and not valid, and it stays so
\* through invalidations and reads until cache_themes is given a list that
\* holds themes. invalidate() is the first thing refresh_theme_cache and
\* invalidate_and_refresh_cache do to the cache; it shows when no list of
\* themes is accepted after it.
C15_InvalidatedAndNotRefilled ==
    /\ ret.cmd \in {"refresh_theme_cache", "invalidate_and_refresh_cache"}
    /\ tcAvail
    /\ \/ ~ret.res.ok
       \/ ret.res.val = <<>>
       \/ ~cache_themes(invalidate(pre), tcConfig, tcOversize, ret.res.val, now).res.ok

C15_EmptyAndInvalid(snap, t) == is_empty(snap) /\ ~is_cache_valid(snap, tcConfig, t)

C15_InvalidateLasts ==
    /\ [](C15_InvalidatedAndNotRefilled => C15_EmptyAndInvalid(snapshot, now))
    /\ [][(is_empty(snapshot) /\ ret'.res.val = <<>>)
             => C15_EmptyAndInvalid(snapshot', now')]_vars

\* a refresh_theme_cache that failed has left empty a cache that held themes
C15_Witness ==
    /\ ret.cmd = "refresh_theme_cache"
    /\ tcAvail
    /\ ~ret.res.ok
    /\ pre.themes # <<>>
    /\ C15_EmptyAndInvalid(snapshot, now)

\* C16: invalidate_custom_themes removes from the snapshot exactly the themes
\* with is_custom = true, invalidate_system_themes exactly those with
\* is_system = true; every other theme stays, unchanged and in its place.
C16_CategoryInvalidation ==
    /\ (ret.cmd = "invalidate_custom_themes_cache" /\ tcAvail) =>
           /\ \A th \in ThemesOf(pre) : th \in ThemesOf(snapshot) <=> ~th.is_custom
           /\ ThemesOf(snapshot) \subseteq ThemesOf(pre)
           /\ snapshot.themes = SelectSeq(pre.themes, LAMBDA th : ~th.is_custom)
    /\ (ret.cmd = "invalidate_system_themes_cache" /\ tcAvail) =>
           /\ \A th \in ThemesOf(pre) : th \in ThemesOf(snapshot) <=> ~th.is_system
           /\ ThemesOf(snapshot) \subseteq ThemesOf(pre)
           /\ snapshot.themes = SelectSeq(pre.themes, LAMBDA th : ~th.is_system)

\* of a custom theme and a theme that is neither custom nor system, the
\* custom one was removed and the other kept
C16_Witness ==
    /\ ret.cmd = "invalidate_custom_themes_cache"
    /\ tcAvail
    /\ Len(pre.themes) = 2
    /\ Len(snapshot.themes) = 1
    /\ \E th \in ThemesOf(snapshot) : ~th.is_custom /\ ~th.is_system
    /\ \E th \in ThemesOf(pre) : th.is_custom

\* C20: when get_themes_cached finds the cache expired or empty and the scan
\* fails, it returns the expired snapshot if that holds themes, and the error
\* of the scan only if it holds none.
C20_ScanFailedOnInvalidCache ==
    /\ ret.cmd = "get_themes_cached"
    /\ tcAvail
    /\ ~(is_cache_valid(pre, tcConfig, now) /\ ~is_empty(pre))
    /\ fsRoot # "ok"

C20_StaleFallback ==
    C20_ScanFailedOnInvalidCache =>
        IF pre.themes # <<>>
        THEN ret.res = Ok(pre.themes) /\ snapshot = pre
        ELSE ~ret.res.ok /\ ret.res.err = RootError(fsRoot) /\ snapshot = pre

\* the themes root is missing and the two themes of an expired snapshot were
\* returned
C20_Witness ==
    /\ C20_ScanFailedOnInvalidCache
    /\ fsRoot = "missing"
    /\ Len(pre.themes) = 2
    /\ ret.res = Ok(pre.themes)
    /\ ret.via = "stale"

\* C21: get_theme_metadata always takes the lightweight path: whatever the
\* ThemeCache snapshot and the ColorCache hold, the call returns what
\* load_theme_metadata_only gives and leaves both as they were.
C21_BypassesCaches ==
    [][\A order \in Orders(ThemeDirsOf(fsDirs)) :
          CmdGetThemeMetadata(order) =>
              /\ snapshot' = snapshot
              /\ colorCache' = colorCache
              /\ ret'.res = load_theme_metadata_only_result(fsRoot, fsDirs, order)]_vars

\* metadata were asked for while the snapshot was valid and the ColorCache
\* held entries
C21_Witness ==
    /\ ret.cmd = "get_theme_metadata"
    /\ ret.res.ok
    /\ Len(ret.res.val) = 2
    /\ is_cache_valid(snapshot, tcConfig, now)
    /\ snapshot = pre
    /\ DOMAIN colorCache # {}

\* C25: the list load_themes_parallel returns does not depend on the order in
\* which its units complete. For the enumeration the scan started from, the
\* returned list is the themes of the succeeding directories in the order of
\* the enumeration, each built by the unit of its directory, and no two of
\* them share an id.
C25_Succeeded == SelectSeq([i \in DOMAIN scPaths |-> i], LAMBDA i : scUnits[i].res = "ok")

C25_CompletionOrderIrrelevant ==
    scPc = "done" /\ scPaths # <<>> =>
        /\ scResult.ok
        /\ scResult.val = [k \in DOMAIN C25_Succeeded |-> ThemeOfUnit(scUnits[C25_Succeeded[k]])]
        /\ [k \in DOMAIN scResult.val |-> scResult.val[k].dir]
              = SelectSeq(scPaths, LAMBDA d : fsDirs[d].unit = "ok")
        /\ \A k, l \in DOMAIN scResult.val :
              scResult.val[k].dir = scResult.val[l].dir => k = l

\* the unit spawned second completed before the unit spawned first, and both
\* themes were returned
C25_Witness ==
    /\ scPc = "done"
    /\ Len(scPaths) = 2
    /\ scResult.ok
    /\ Len(scResult.val) = 2
    /\ scUnits[2].rank < scUnits[1].rank

\* C26: image handling never fails a theme unit. A directory without an image
\* file, one whose first image file cannot be read and one whose image task
\* fails each give a theme with the empty string as its image, and that theme
\* is returned by the scan with its other fields filled in.
C26_ImageNeverFails ==
    scPc = "done" /\ scPaths # <<>> =>
        \A i \in DOMAIN scPaths :
            LET d == scPaths[i]
                e == fsDirs[d]
            IN  e.unit = "ok" /\ e.image \in {"none", "unreadable", "taskfail"} =>
                    /\ scUnits[i].res = "ok"
                    /\ \E k \in DOMAIN scResult.val :
                          /\ scResult.val[k].dir = d
                          /\ scResult.val[k].image = ""
                          /\ scResult.val[k].title = dir_name_to_title(d)
                          /\ scResult.val[k].description = <<"Auto-generated theme from ">> \o d
                          /\ scResult.val[k].is_custom = IsCustom(e)
                          /\ scResult.val[k].is_system = IsSystem(e, IsCustom(e))

\* a scan has returned two themes, one whose image file could not be read and
\* one whose image task failed
C26_Witness ==
    /\ scPc = "done"
    /\ scResult.ok
    /\ Len(scResult.val) = 2
    /\ {fsDirs[scPaths[i]].image : i \in DOMAIN scPaths} = {"unreadable", "taskfail"}
    /\ \A k \in DOMAIN scResult.val : scResult.val[k].image = ""

\* C27: the loader tries the color sources in a fixed order and the first one
\* that yields a palette wins: custom_theme.json and then alacritty.toml for a
\* custom theme, alacritty.toml alone for any other. A source that is absent,
\* unreadable, malformed or without colors yields nothing and does not fail
\* the unit, and the result is None exactly when no tried source yields a
\* palette.
C27_JsonYield(e) ==
    IF e.custom = "absent" \/ e.json \in {"unreadable", "malformed", "empty"}
    THEN None ELSE Some(e.json)

C27_TomlYield(e) == IF e.toml \in {"absent", "empty"} THEN None ELSE Some(e.toml)

C27_Tried(e, is_custom) ==
    IF is_custom THEN <<C27_JsonYield(e), C27_TomlYield(e)>> ELSE <<C27_TomlYield(e)>>

C27_FirstYield(tried) ==
    IF \A k \in DOMAIN tried : tried[k] = None THEN None
    ELSE tried[CHOOSE k \in DOMAIN tried :
                   tried[k] # None /\ \A l \in 1..(k - 1) : tried[l] = None]

C27_Sources ==
    {Entry("dir", "ok", cu, FALSE, js, to, "none") :
        cu \in {"absent", "file"},
        js \in {"unreadable", "malformed", "empty"} \cup Palettes,
        to \in {"absent", "empty"} \cup Palettes}

C27_ExtractionOrder ==
    /\ [](\A e \in C27_Sources : \A is_custom \in {FALSE, IsCustom(e)} :
            LET colors == extract_theme_colors_direct(e, is_custom)
            IN  /\ colors = C27_FirstYield(C27_Tried(e, is_custom))
                /\ colors = None <=>
                      \A k \in DOMAIN C27_Tried(e, is_custom) : C27_Tried(e, is_custom)[k] = None
                /\ colors \in OptColors)
    /\ [][\A i \in DOMAIN scUnits :
            /\ i \in DOMAIN scUnits'
            /\ scUnits[i].pc = "spawned"
            /\ scUnits'[i].pc = "set"
            => /\ scUnits'[i].res = "none"
               /\ scUnits'[i].colors =
                     C27_FirstYield(C27_Tried(fsDirs[scUnits[i].dir], scUnits'[i].is_custom))]_vars

\* the unit of a custom theme whose custom_theme.json is malformed has fallen
\* through to alacritty.toml, beside a unit that took custom_theme.json first
C27_Witness ==
    /\ scPc = "joining"
    /\ fsEdits = 0
    /\ \E i, j \in DOMAIN scUnits :
          /\ scUnits[i].pc = "set"
          /\ scUnits[i].is_custom
          /\ fsDirs[scUnits[i].dir].json = "malformed"
          /\ scUnits[i].colors = Some(fsDirs[scUnits[i].dir].toml)
          /\ scUnits[j].pc = "set"
          /\ scUnits[j].is_custom
          /\ fsDirs[scUnits[j].dir].toml \in Palettes
          /\ scUnits[j].colors = Some(fsDirs[scUnits[j].dir].json)
          /\ fsDirs[scUnits[j].dir].json # fsDirs[scUnits[j].dir].toml

C28_FreshColors(themes) ==
    \A k \in DOMAIN themes :
        /\ themes[k].dir \in DOMAIN fsDirs
        /\ themes[k].colors = extract_theme_colors_direct(fsDirs[themes[k].dir],
                                                          IsCustom(fsDirs[themes[k].dir]))

C28_Recached(fitting) ==
    \A order \in Orders(ThemeDirsOf(fsDirs)) :
        CmdRefreshThemeCache(order) /\ tcAvail =>
            /\ \A d \in DOMAIN colorCache' :
                  /\ d \in ThemeDirsOf(fsDirs)
                  /\ colorCache'[d] = extract_theme_colors_direct(fsDirs[d], IsCustom(fsDirs[d]))
            /\ ~ret'.res.ok => is_empty(snapshot')
            /\ (/\ ret'.res.ok
                /\ ret'.res.val # <<>>
                /\ fitting => Len(ret'.res.val) <= tcConfig.max_cache_size)
               => /\ get_themes(snapshot') = Ok(ret'.res.val)
                  /\ is_cache_valid(snapshot', tcConfig, now')
                  /\ C28_FreshColors(ret'.res.val)

\* C28 as stated: refresh_theme_cache clears the ColorCache, invalidates the
\* ThemeCache, scans and caches the result, and whenever the scan succeeds
\* with a non-empty result the returned list is the snapshot afterwards, the
\* cache is valid and every color was computed during this refresh.
C28_RefreshRecachesAny == [][C28_Recached(FALSE)]_vars

\* C28, amended: the same for a result that fits max_cache_size. The
\* ColorCache holds afterwards only what this scan stored, a failed scan
\* leaves the snapshot the invalidation emptied, and a non-empty result that
\* fits is returned, cached as a valid snapshot and made of colors extracted
\* from the files as they are now.
C28_RefreshRecachesFitting == [][C28_Recached(TRUE)]_vars

\* a refresh has replaced a snapshot whose colors an update had made stale
C28_Witness ==
    /\ ret.cmd = "refresh_theme_cache"
    /\ tcAvail
    /\ ret.res.ok
    /\ fsEdits = 1
    /\ get_themes(snapshot) = ret.res
    /\ \E k \in DOMAIN pre.themes : \E l \in DOMAIN ret.res.val :
          /\ pre.themes[k].dir = ret.res.val[l].dir
          /\ pre.themes[k].colors # ret.res.val[l].colors

\* C29: delete_theme(name) removes at most the directory
\* themes_dir/sanitize_name(name). Whatever the name, also one that
\* sanitize_name empties, the themes root and every other theme directory
\* are there after the call as they were before it.
C29_DeleteRemovesOneDirectory ==
    [][\A name \in CustomNames :
          CmdDeleteCustomTheme(name) /\ fsRoot = "ok" =>
              /\ fsRoot' = "ok"
              /\ \A d \in DOMAIN fsDirs \ {sanitize_name(name)} :
                    d \in DOMAIN fsDirs' /\ fsDirs'[d] = fsDirs[d]]_vars

\* C30: after update_custom_theme has succeeded for a theme an earlier scan
\* had loaded, the list of the refresh the command triggers carries for that
\* theme the colors of the updated theme data, and so does every theme of a
\* later get_sys_themes: its colors are those its files give now, not those
\* the ColorCache held before the update.
C30_UpdatedColorsServed ==
    /\ [][\A name \in CustomNames : \A theme_data \in Palettes :
            (/\ CmdUpdateCustomTheme(name, theme_data)
             /\ ret'.res.ok
             /\ sanitize_name(name) \in DOMAIN colorCache
             /\ tbr'.called
             /\ tbr'.res.ok)
            => \A k \in DOMAIN tbr'.res.val :
                   tbr'.res.val[k].dir = sanitize_name(name)
                       => tbr'.res.val[k].colors = Some(theme_data)]_vars
    /\ [][\A order \in Orders(ThemeDirsOf(fsDirs)) :
            (CmdGetSysThemes(order) /\ fsEdits > 0 /\ ret'.res.ok)
            => \A k \in DOMAIN ret'.res.val :
                   ret'.res.val[k].dir \in DOMAIN fsDirs
                       => ret'.res.val[k].colors =
                              extract_theme_colors_direct(fsDirs[ret'.res.val[k].dir],
                                                          IsCustom(fsDirs[ret'.res.val[k].dir]))]_vars

\* C31: after delete_custom_theme(name) has returned success, the snapshot
\* holds no theme whose id is sanitize_name(name), for every name, also one
\* that sanitize_name changes, and whether the background refresh the
\* command triggers succeeds or fails.
C31_DeletedThemeLeavesSnapshot ==
    [][\A name \in CustomNames :
          CmdDeleteCustomTheme(name) /\ ret'.res.ok =>
              \A k \in DOMAIN snapshot'.themes :
                  snapshot'.themes[k].dir # sanitize_name(name)]_vars

(***************************************************************************)
(* Claims about the two generators (SpecLoader)                            *)
(***************************************************************************)
C38_Compared == {"dir", "title", "description", "is_custom", "is_system", "colors"}

C38_Fields(theme) == [f \in C38_Compared |-> theme[f]]

\* C38: a unit of the loader that finds no entry in the ColorCache gives its
\* theme the id, title, description, is_custom, is_system and colors that
\* the sequential generate_theme_from_directory gives the same directory,
\* and fails on the directories on which it fails.
C38_GeneratorsAgree ==
    [][\A i \in 1..Cardinality(LoaderDirNames) :
          (/\ UnitBegin(i)
           /\ ColorCacheGet(colorCache, scUnits[i].dir) = None
           /\ fsDirs[scUnits[i].dir].unit # "panic") =>
              LET Same(seq, u) ==
                      IF seq.ok
                      THEN /\ u.pc = "set"
                           /\ C38_Fields(ThemeOfUnit(u)) = C38_Fields(seq.val)
                      ELSE u.res = "err"
              IN  Same(generate_theme_from_directory(scUnits[i].dir,
                                                     fsDirs[scUnits[i].dir]),
                       scUnits'[i])]_vars

\* a unit that found no entry in the ColorCache has produced a custom theme
\* with colors, under a name with a separator
C38_Witness ==
    \E i \in DOMAIN scUnits :
        /\ scUnits[i].pc = "done"
        /\ scUnits[i].res = "ok"
        /\ ~scUnits[i].hit
        /\ scUnits[i].is_custom
        /\ scUnits[i].colors # None
        /\ scUnits[i].dir = <<"b", "-", "c">>
        /\ C38_Fields(ThemeOfUnit(scUnits[i]))
             = C38_Fields(generate_theme_from_directory(scUnits[i].dir,
                                                        fsDirs[scUnits[i].dir]).val)

(***************************************************************************)
(* Claims about the scheduled scan (SpecLoaderFair)                        *)
(***************************************************************************)
C37_AllUnitsCompleted == \A i \in DOMAIN scUnits : scUnits[i].pc = "done"

\* C37: a scan of load_themes_parallel whose units all terminate returns,
\* and when it has returned every unit it spawned has completed: none is
\* left that could still write to the ColorCache.
C37_ScanReturnsWithUnitsDone ==
    /\ [](scPc = "done" => C37_AllUnitsCompleted)
    /\ (scPc = "joining" ~> (scPc = "done" /\ C37_AllUnitsCompleted))

\* a scan of two units, one of which failed, has returned
C37_Witness ==
    /\ scPc = "done"
    /\ Len(scUnits) = 2
    /\ C37_AllUnitsCompleted
    /\ Len(scThemes) = 1
    /\ scResult.ok

(***************************************************************************)
(* Claims about commands run by concurrent callers                         *)
(***************************************************************************)
\* C32: get_cache_stats never reports theme_cache_valid = true together
\* with theme_cache_size = 0, whatever other callers do to the snapshot
\* between its awaits.
C32_ValidImpliesNonEmpty ==
    [][\A p \in RaceProcs :
          StatsValidStep(p) =>
              ~(is_cache_valid(snapshot, tcConfig, now) /\ rcProc[p].local.size = 0)]_vars

\* C33: the list get_sys_themes returns from the snapshot is never empty
\* while theme directories exist, whatever invalidation falls between the
\* checks and get_themes.
C33_FastPathNonEmpty ==
    [][\A p \in RaceProcs :
          (GetThemesStep(p) /\ get_themes(snapshot).ok /\ ThemeDirsOf(fsDirs) # {}) =>
              get_themes(snapshot).val # <<>>]_vars

\* C35: when the last of the concurrent scans of get_sys_themes stores its
\* list, the snapshot holds the themes of the scan that read the theme
\* files last.
C35_NewestScanKept ==
    [][\A p \in RaceProcs :
          (/\ CacheThemesStep(p)
           /\ \A q \in RaceProcs \ {p} : rcProc[q].pc \notin {"set", "store"}) =>
              Range(snapshot'.themes) = Range(Unwrap(rcRead))]_vars

\* what a scan of the theme files as they are, with an empty ColorCache,
\* produces
C36_OnDisk ==
    LET order == CHOOSE o \in Orders(ThemeDirsOf(fsDirs)) : TRUE
    IN  Range(load_themes_parallel(fsRoot, fsDirs, order, ColorCacheNew).res.val)

\* C36: refresh_theme_cache returns and caches only what a scan begun after
\* its own clear and invalidate has produced: when the theme files have not
\* changed since the clear, that is the themes as the files have them.
C36_RefreshReturnsFreshScan ==
    [][\A p \in RaceProcs :
          (RefreshRecacheStep(p) /\ rcProc[p].local.edits = fsEdits) =>
              /\ Range(rcProc[p].local.themes) = C36_OnDisk
              /\ Range(snapshot'.themes) = C36_OnDisk]_vars

\* C34: when update_cache_config and reset_cache_config calls have run
\* concurrently and all of them have returned success, the configuration
\* the theme cache runs on is the theme_cache section of the configuration
\* in cache_config.toml.
C34_LiveIsPersisted ==
    (rcCalls > 0 /\ \A p \in RaceProcs : rcProc[p].pc = "idle") =>
        /\ IsSome(cfgFile)
        /\ from_str(Unwrap(cfgFile)).ok
        /\ from_str(Unwrap(cfgFile)).val.theme_cache = tcConfig

(***************************************************************************)
(* Claims about the configuration manager (SpecConfig)                     *)
(***************************************************************************)
\* C17: update_cache_config with a configuration that validate_config
\* rejects returns the validation error, writes nothing to the
\* configuration file and leaves the live theme cache configuration alone.
C17_InvalidSubmitted ==
    /\ cfgRet.op = "update_cache_config"
    /\ ~validate_config(cfgRet.arg).ok

C17_InvalidUpdateRejected ==
    C17_InvalidSubmitted =>
        /\ ~cfgRet.res.ok
        /\ cfgRet.res.err = validate_config(cfgRet.arg).err
        /\ cfgFile = cfgPre.file
        /\ tcConfig = cfgPre.live

\* cache_duration_minutes = 0 was submitted over a saved configuration, with
\* no file operation failing
C17_Witness ==
    /\ C17_InvalidSubmitted
    /\ cfgRet.arg.theme_cache.cache_duration_minutes = 0
    /\ cfgRet.io = "ok"
    /\ cfgRet.res.err = "Cache duration must be greater than 0"
    /\ IsSome(cfgFile)
    /\ cfgFile = cfgPre.file
    /\ tcConfig # AppCacheConfigDefault.theme_cache

\* C18: validate_config accepts a configuration exactly when
\* cache_duration_minutes, max_cache_size and background_refresh_interval are
\* above 0 and cache_directory is absent or an absolute path; the default
\* configuration is accepted.
C18_Acceptable(config) ==
    /\ config.theme_cache.cache_duration_minutes > 0
    /\ config.theme_cache.max_cache_size > 0
    /\ config.theme_cache.background_refresh_interval > 0
    /\ \/ config.cache_directory = None
       \/ /\ Len(Unwrap(config.cache_directory)) > 0
          /\ Unwrap(config.cache_directory)[1] = "/"

C18_ValidateConfig ==
    cfgRet.op = "validate_config" =>
        /\ cfgRet.res.ok <=> C18_Acceptable(cfgRet.arg)
        /\ cfgRet.arg = AppCacheConfigDefault => cfgRet.res.ok

\* the default configuration was validated and accepted
C18_Witness ==
    /\ cfgRet.op = "validate_config"
    /\ cfgRet.arg = AppCacheConfigDefault
    /\ cfgRet.res.ok

\* C19: starting from no persisted configuration, after any sequence of
\* load_config, update_cache_config, update_theme_cache_config and
\* reset_cache_config calls the configuration held in cache_config.toml
\* parses and passes validate_config.
C19_PersistedConfigValid ==
    IsSome(cfgFile) =>
        /\ from_str(Unwrap(cfgFile)).ok
        /\ validate_config(from_str(Unwrap(cfgFile)).val).ok

(***************************************************************************)
(* The specifications                                                      *)
(***************************************************************************)
InitSpecTitle ==
    InitTitle /\ InitColor /\ InitFsIdle /\ InitScan
    /\ InitCacheIdle /\ InitRWIdle /\ InitConfigIdle /\ InitOnceIdle /\ InitRaceIdle

SpecTitle == InitSpecTitle /\ [][NextTitle]_vars

InitSpecSanitize ==
    InitSanitize /\ InitColor /\ InitFsIdle /\ InitScan
    /\ InitCacheIdle /\ InitRWIdle /\ InitConfigIdle /\ InitOnceIdle /\ InitRaceIdle

SpecSanitize == InitSpecSanitize /\ [][NextSanitize]_vars

InitSpecColor ==
    InitColor /\ InitTitleIdle /\ InitFsIdle /\ InitScan
    /\ InitCacheIdle /\ InitRWIdle /\ InitConfigIdle /\ InitOnceIdle /\ InitRaceIdle

SpecColor == InitSpecColor /\ [][NextColor]_vars

InitSpecLoader ==
    InitFs /\ InitColor /\ InitTitleIdle /\ InitScan
    /\ InitCacheIdle /\ InitRWIdle /\ InitConfigIdle /\ InitOnceIdle /\ InitRaceIdle

SpecLoader == InitSpecLoader /\ [][NextLoader]_vars

InitSpecLoaderFair ==
    InitFsFair /\ InitColor /\ InitTitleIdle /\ InitScan
    /\ InitCacheIdle /\ InitRWIdle /\ InitConfigIdle /\ InitOnceIdle /\ InitRaceIdle

SpecLoaderFair ==
    InitSpecLoaderFair /\ [][NextLoaderFair]_vars /\ UnitsScheduled /\ WF_vars(JoinNext)

InitSpec ==
    InitCache /\ InitColor /\ InitTitleIdle /\ InitScan
    /\ InitRWIdle /\ InitConfigIdle /\ InitOnceIdle /\ InitRaceIdle

InitSpecRW ==
    InitRW /\ InitColor /\ InitTitleIdle /\ InitFsIdle
    /\ InitScan /\ InitConfigIdle /\ InitOnceIdle /\ InitRaceIdle

SpecRW == InitSpecRW /\ [][NextRW]_vars

InitSpecConfig ==
    InitConfig /\ InitColor /\ InitTitleIdle /\ InitFsIdle /\ InitScan
    /\ InitRWIdle /\ InitOnceIdle /\ InitRaceIdle

SpecConfig == InitSpecConfig /\ [][NextConfig]_vars

InitSpecOnce ==
    InitOnceIdle /\ InitCacheIdle /\ InitColor /\ InitTitleIdle /\ InitFsIdle /\ InitScan
    /\ InitRWIdle /\ InitConfigIdle /\ InitRaceIdle

SpecOnce == InitSpecOnce /\ [][NextOnce]_vars

InitSpecCustom ==
    InitCustom /\ InitColor /\ InitTitleIdle /\ InitScan
    /\ InitRWIdle /\ InitConfigIdle /\ InitOnceIdle /\ InitRaceIdle

SpecCustom == InitSpecCustom /\ [][NextCustom]_vars

InitSpecConfigRace ==
    InitConfigRace /\ InitColor /\ InitTitleIdle /\ InitFsIdle /\ InitScan
    /\ InitRWIdle /\ InitOnceIdle /\ InitRaceIdle

SpecConfigRace == InitSpecConfigRace /\ [][NextConfigRace]_vars

InitSpecRace ==
    InitThemeRace /\ InitColor /\ InitTitleIdle /\ InitScan /\ InitRWIdle
    /\ InitConfigIdle /\ InitOnceIdle /\ InitRaceIdle

SpecRace == InitSpecRace /\ [][NextRace]_vars

Spec == InitSpec /\ [][Next]_vars

====
